---- MODULE Spec2Model ----
(***************************************************************************)
(* A model of the metadata indexing core of orma: the SQLite worker, the   *)
(* ImageRepository on top of it, and the import pipeline (sequential and   *)
(* worker-parallel) of src/src/lib/import.ts.                              *)
(*                                                                         *)
(* Granularity: one action is one task of the main thread's event loop     *)
(* (a message handler and every microtask it triggers, up to the next      *)
(* await on a message), or one message handled by a worker.  The SQLite    *)
(* worker answers its requests in FIFO order; executing a request and      *)
(* running the continuation of the caller awaiting it is one action.       *)
(***************************************************************************)
EXTENDS Integers, Sequences, FiniteSets, TLC

\* ------------------------------------------------------------------ bounds
\* number of distinct paths the repository clients use
MaxPaths == 2
\* number of repository calls a client makes in one behaviour
MaxCalls == 2
\* longest list handed to saveImages by a client
MaxList == 2
\* most image files in an imported directory
MaxFiles == 3
\* largest navigator.hardwareConcurrency
MaxCores == 3
\* largest batch size (BATCH_SIZE, scaled to the directories above)
MaxBatchSize == 2

\* ------------------------------------------------------------------ program constants
MAX_WORKERS == 6

\* ------------------------------------------------------------------ values
NULL == "null"

Dirs == <<"a", "b">>

\* a path is <<directory, file name>>: PathOf(1) and PathOf(2) are a/x1.jpg
\* and b/x1.jpg, two paths with the same file name
PathOf(i) == <<Dirs[((i - 1) % 2) + 1], (i + 1) \div 2>>

\* imageData.path === undefined: bound as SQL NULL
NoPath == <<"undefined", 0>>

\* the metadata object extracted for the n-th save of a behaviour: every save
\* carries a different object, so that the latest save is recognisable
Meta(n) == <<"meta", n>>

EmptyObject == "{}"

\* JSON.stringify / JSON.parse of a metadata object
Stringify(m) == <<"json", m>>

Parse(s) == s[2]

VARIABLES
  \* sqlite.worker: the images table, the AUTOINCREMENT counter, the open
  \* transaction with the state it rolls back to, the worker's message queue
  tbl, seq, txOpen, snap, dbQueue,
  \* whether the engine may reject an INSERT for reasons of its own
  flaky,
  \* ImageRepository: the calls in flight, one per caller
  call,
  \* the repository's clients: calls made, the table when the current call
  \* was made, the first failing statement of the current call, and the
  \* metadata last saved for each path
  ncalls, pre, firstErr, lastSaved,
  \* importImages: what it is called with (the directory, the options, the
  \* hardware) and the locals of the invocation
  input, imp

VARIABLES
  \* SQLiteWorker (the main-thread adapter of the storage engine): its fields,
  \* whether worker.terminate() was called, and the promise sendMessage returned
  \* for each request id
  messageId, pendingRequests, initialized, terminated, promise,
  \* the messages posted to sqlite.worker and not handled yet, the responses
  \* it posted that were not delivered yet, and its database handle
  toWorker, toMain, workerDb,
  \* the calls made on the adapter by its clients
  acalls,
  \* ImageRepository: its initialized flag, the init() call in progress and
  \* the last call of another method made on it
  repoInitialized, repoInit, rcall,
  \* the engine's clock (CURRENT_TIMESTAMP, in whole seconds) and what the
  \* last read of the repository returned
  now, out

VARIABLES
  \* the managed root the imports copy into: its import directories and the
  \* files in each
  managed,
  \* ImageRepositoryProvider: its React state, its effects and the storage
  \* contexts it created
  provider,
  \* the Albums page: its React state and the albums of the repository
  view,
  \* import.worker: the messages posted to it, the invocation of its handler
  \* for each, the responses it posted and the directory behind its handle
  importWorker

dbVars == <<tbl, seq, txOpen, snap, flaky>>

clientVars == <<ncalls, pre, firstErr, lastSaved>>

storeVars == <<messageId, pendingRequests, initialized, terminated, promise, toWorker,
               toMain, workerDb, acalls, repoInitialized, repoInit, rcall>>

appVars == <<managed, provider, view, importWorker>>

queryVars == <<now, out, appVars>>

vars == <<tbl, seq, txOpen, snap, dbQueue, flaky, call, ncalls, pre, firstErr, lastSaved,
          input, imp, storeVars, queryVars>>

\* ------------------------------------------------------------------ parts at rest
\* no repository method has been called yet
NoCall == [op |-> "none", st |-> "none", err |-> NULL]

\* the adapter as constructed, with nothing sent
StoreIdle ==
  /\ messageId = 0
  /\ pendingRequests = {}
  /\ initialized = FALSE
  /\ terminated = FALSE
  /\ promise = <<>>
  /\ toWorker = <<>>
  /\ toMain = {}
  /\ workerDb = NULL
  /\ acalls = <<>>
  /\ repoInitialized = FALSE
  /\ repoInit = [st |-> "none", step |-> 0, req |-> -1]
  /\ rcall = [op |-> "none", st |-> "none", err |-> NULL, sent |-> 0,
              initDone |-> FALSE, initRunning |-> FALSE]

\* the provider and the Albums page not mounted
NoProvider == [mounted |-> FALSE]

NoView == [mounted |-> FALSE]

\* import.worker before any message is posted to it
NoWorker == [msgs |-> <<>>, run |-> <<>>, outbox |-> <<>>, tree |-> {}]

\* the clock at its origin, nothing read, nothing copied, nothing mounted
QueryIdle ==
  /\ now = 0
  /\ out = NoCall
  /\ managed = <<>>
  /\ provider = NoProvider
  /\ view = NoView
  /\ importWorker = NoWorker

\* ------------------------------------------------------------------ sqlite.worker
\* callers of the repository: the importImages coroutine (or a client) and
\* the batch-complete handler of each pool worker
Main == 0

Callers == 0..MAX_WORKERS

NoSnap == [tbl |-> {}, seq |-> 0]

NoErr == [sql |-> NULL, err |-> NULL]

Db == [tbl |-> tbl, seq |-> seq, txOpen |-> txOpen, snap |-> snap]

Ok(db, rows) == [db |-> db, err |-> NULL, rows |-> rows]

Err(db, e) == [db |-> db, err |-> e, rows |-> {}]

\* INSERT OR REPLACE with the conflict taken on the file name instead of the path
MutInsertOrReplace(db, r) ==
  [db EXCEPT !.tbl = {x \in db.tbl : x.path[2] # r.path[2]}
                       \cup {[id |-> db.seq + 1, path |-> r.path, metadata |-> r.metadata]},
             !.seq = db.seq + 1]

\* INSERT OR REPLACE INTO images: the row in conflict on the UNIQUE path is
\* deleted, the new row gets the next AUTOINCREMENT id
InsertOrReplace(db, r) ==
  [db EXCEPT !.tbl = {x \in db.tbl : x.path # r.path}
                       \cup {[id |-> db.seq + 1, path |-> r.path, metadata |-> r.metadata]},
             !.seq = db.seq + 1]

\* the columns of a row that getStatistics reads, as saveImage derives them
\* from the metadata object <<"meta", DateTimeOriginal, GPSLatitude,
\* GPSLongitude, fileSize>>; an object without these properties has no GPS
\* columns and takes date and size from the file (the same for every file)
FileSize(r) == IF Len(Parse(r.metadata)) = 5 THEN Parse(r.metadata)[5] ELSE 1

DateTimeOriginal(r) ==
  IF Len(Parse(r.metadata)) = 5 THEN <<"iso", Parse(r.metadata)[2]>> ELSE <<"iso", 1>>

GpsColumns(r) ==
  IF Len(Parse(r.metadata)) = 5 THEN <<Parse(r.metadata)[3], Parse(r.metadata)[4]>>
  ELSE <<<<>>, <<>>>>

RECURSIVE SumFileSize(_)
SumFileSize(rows) ==
  IF rows = {} THEN 0
  ELSE LET r == CHOOSE x \in rows : TRUE IN FileSize(r) + SumFileSize(rows \ {r})

\* the four statements of getStatistics
AggregateQueries == {"COUNT", "SUM", "COUNT_GPS", "MIN_MAX"}

\* an aggregate without GROUP BY returns one row, also over no rows: COUNT
\* is 0 then, and SUM, MIN and MAX are NULL (written <<>>)
Aggregate(sql, rows) ==
  CASE sql = "COUNT" -> [count |-> Cardinality(rows)]
    [] sql = "SUM" -> [total |-> IF rows = {} THEN <<>> ELSE <<SumFileSize(rows)>>]
    [] sql = "COUNT_GPS" ->
         [count |-> Cardinality({r \in rows : GpsColumns(r)[1] # <<>> /\ GpsColumns(r)[2] # <<>>})]
    [] sql = "MIN_MAX" ->
         IF rows = {} THEN [oldest |-> <<>>, newest |-> <<>>]
         ELSE [oldest |-> DateTimeOriginal(CHOOSE r \in rows :
                             \A x \in rows : DateTimeOriginal(r)[2] <= DateTimeOriginal(x)[2]),
               newest |-> DateTimeOriginal(CHOOSE r \in rows :
                             \A x \in rows : DateTimeOriginal(r)[2] >= DateTimeOriginal(x)[2])]

\* BEGIN / COMMIT / ROLLBACK on the worker's single connection
BeginTx(db) ==
  IF db.txOpen
    THEN Err(db, "cannot start a transaction within a transaction")
    ELSE Ok([db EXCEPT !.txOpen = TRUE, !.snap = [tbl |-> db.tbl, seq |-> db.seq]], {})

CommitTx(db) ==
  IF ~db.txOpen
    THEN Err(db, "cannot commit - no transaction is active")
    ELSE Ok([db EXCEPT !.txOpen = FALSE, !.snap = NoSnap], {})

RollbackTx(db) ==
  IF ~db.txOpen
    THEN Err(db, "cannot rollback - no transaction is active")
    ELSE Ok([db EXCEPT !.tbl = db.snap.tbl, !.seq = db.snap.seq,
                       !.txOpen = FALSE, !.snap = NoSnap], {})

\* execSQL / querySQL: one statement on the connection; fail is the engine
\* rejecting the statement for reasons of its own (the statement has no
\* effect and an open transaction stays open)
ExecSQL(db, req, fail) ==
  CASE req.sql = "BEGIN" -> BeginTx(db)
    [] req.sql = "COMMIT" -> CommitTx(db)
    [] req.sql = "ROLLBACK" -> RollbackTx(db)
    [] req.sql = "INSERT" ->
         IF fail THEN Err(db, "statement rejected by the engine")
         ELSE IF req.arg.path = NoPath
           THEN Err(db, "NOT NULL constraint failed: images.path")
           ELSE Ok(InsertOrReplace(db, req.arg), {})
    [] req.sql = "SELECT" -> Ok(db, {x \in db.tbl : x.path = req.arg})
    [] req.sql = "DELETE" -> Ok([db EXCEPT !.tbl = {x \in db.tbl : x.path # req.arg}], {})
    [] req.sql = "DELETE_ALL" -> Ok([db EXCEPT !.tbl = {}], {})
    [] req.sql \in AggregateQueries -> Ok(db, {Aggregate(req.sql, db.tbl)})

FaultChoices(req) == IF flaky /\ req.sql = "INSERT" THEN {FALSE, TRUE} ELSE {FALSE}

\* ------------------------------------------------------------------ ImageRepository
IdleCall ==
  [op |-> "none", owner |-> "none", pc |-> "idle", images |-> <<>>, shared |-> FALSE,
   i |-> 0, cur |-> NoPath, err |-> NULL, ret |-> <<>>]

Request(c, sql, arg) == [from |-> c, sql |-> sql, arg |-> arg]

\* the row saveImage writes for imageData
DbRecord(imageData) ==
  [path |-> imageData.path,
   metadata |-> Stringify(IF imageData.metadata = NULL THEN EmptyObject
                          ELSE imageData.metadata)]

\* transformRecord of a raw row
TransformRecord(raw) == [id |-> raw.id, path |-> raw.path, metadata |-> Parse(raw.metadata)]

Settled(cl) == cl.pc \in {"idle", "resolved", "rejected"}

Resolved(cl, v) == [call |-> [cl EXCEPT !.pc = "resolved", !.ret = v], post |-> <<>>]

Rejected(cl, e) == [call |-> [cl EXCEPT !.pc = "rejected", !.err = e], post |-> <<>>]

\* saveImage(imageData): the INSERT OR REPLACE is sent, the SELECT id follows
SaveImage(c, cl, imageData) ==
  [call |-> [cl EXCEPT !.pc = "insert", !.cur = imageData.path],
   post |-> <<Request(c, "INSERT", DbRecord(imageData))>>]

\* saveImages rethrowing the error without the ROLLBACK
MutOnError(c, cl, e) == Rejected(cl, e)

\* saveImages: an error caught by the try block; saveImage alone rejects
OnError(c, cl, e) ==
  IF cl.op = "saveImages"
    THEN [call |-> [cl EXCEPT !.pc = "rollback", !.err = e],
          post |-> <<Request(c, "ROLLBACK", NULL)>>]
    ELSE Rejected(cl, e)

\* saveImages: the for-of loop reaches element k of the (live) array
LoopNext(c, cl, images, k) ==
  IF k <= Len(images)
    THEN SaveImage(c, [cl EXCEPT !.i = k], images[k])
    ELSE [call |-> [cl EXCEPT !.pc = "commit", !.i = k],
          post |-> <<Request(c, "COMMIT", NULL)>>]

\* the value of dateResult[0]?.oldest when the query returned no row
UndefinedDate == <<"undefined">>

\* getStatistics: the object composed from the four results. total || 0
\* turns a NULL sum into 0, [0]?.oldest passes the column value on
GetStatisticsResult(results) ==
  LET countResult == CHOOSE x \in results[1] : TRUE
      sizeResult == CHOOSE x \in results[2] : TRUE
      gpsResult == CHOOSE x \in results[3] : TRUE
      dateResult == results[4]
  IN [totalImages |-> countResult.count,
      totalSize |-> IF sizeResult.total = <<>> THEN 0 ELSE sizeResult.total[1],
      imagesWithGPS |-> gpsResult.count,
      dateRange |-> IF dateResult = {} THEN [oldest |-> UndefinedDate, newest |-> UndefinedDate]
                    ELSE LET row == CHOOSE x \in dateResult : TRUE
                         IN [oldest |-> row.oldest, newest |-> row.newest]]

\* the continuation of call cl when the response to its request arrives
Resume(c, cl, images, res) ==
  CASE cl.pc = "begin" ->
         IF res.err # NULL THEN Rejected(cl, res.err) ELSE LoopNext(c, cl, images, 1)
    [] cl.pc = "insert" ->
         IF res.err # NULL THEN OnError(c, cl, res.err)
         ELSE [call |-> [cl EXCEPT !.pc = "select"],
               post |-> <<Request(c, "SELECT", cl.cur)>>]
    [] cl.pc = "select" ->
         IF res.err # NULL THEN OnError(c, cl, res.err)
         ELSE IF res.rows = {} THEN OnError(c, cl, "TypeError: result[0] is undefined")
         ELSE IF cl.op = "saveImage"
           THEN Resolved(cl, <<(CHOOSE x \in res.rows : TRUE).id>>)
           ELSE LoopNext(c, cl, images, cl.i + 1)
    [] cl.pc = "commit" ->
         IF res.err # NULL THEN OnError(c, cl, res.err) ELSE Resolved(cl, <<>>)
    [] cl.pc = "rollback" ->
         IF res.err # NULL THEN Rejected(cl, res.err) ELSE Rejected(cl, cl.err)
    [] cl.pc = "delete" ->
         IF res.err # NULL THEN Rejected(cl, res.err) ELSE Resolved(cl, <<>>)
    [] cl.pc = "query" ->
         IF res.err # NULL THEN Rejected(cl, res.err)
         ELSE IF res.rows = {} THEN Resolved(cl, <<NULL>>)
         ELSE Resolved(cl, <<TransformRecord(CHOOSE x \in res.rows : TRUE).metadata>>)
    [] cl.pc = "statistics" ->
         IF res.err # NULL THEN Rejected(cl, res.err)
         ELSE IF Len(cl.ret) < 3 THEN [call |-> [cl EXCEPT !.ret = Append(@, res.rows)],
                                       post |-> <<>>]
         ELSE Resolved(cl, <<GetStatisticsResult(Append(cl.ret, res.rows))>>)

\* the array a saveImages call iterates: its argument, which for the import
\* handlers is the one batchesToSave array
ImagesOf(c) == IF call[c].shared THEN imp.batchesToSave ELSE call[c].images

\* ------------------------------------------------------------------ clients of the repository
RepoPaths == {PathOf(i) : i \in 1..MaxPaths}

\* well-formed records and a malformed one (no path), with the metadata of
\* the call they are saved by
Records == [path : RepoPaths \cup {NoPath}, metadata : {Meta(ncalls + 1)}, error : {NULL}]

Lists == UNION {[1..n -> Records] : n \in 0..MaxList}

NewCall(op, images) ==
  [IdleCall EXCEPT !.op = op, !.owner = "api", !.images = images]

\* a client may call when no call of its own or of another client is in flight
MayCall(c) ==
  /\ ncalls < MaxCalls
  /\ \A d \in Callers : Settled(call[d])

Begin(c, k) ==
  /\ call' = [call EXCEPT ![c] = k.call]
  /\ dbQueue' = dbQueue \o k.post
  /\ ncalls' = ncalls + 1
  /\ pre' = tbl
  /\ firstErr' = NoErr
  /\ UNCHANGED <<dbVars, lastSaved, input, imp, storeVars, queryVars>>

CallSaveImage(c, rec) ==
  /\ MayCall(c)
  /\ Begin(c, SaveImage(c, NewCall("saveImage", <<rec>>), rec))

CallSaveImages(c, recs) ==
  /\ MayCall(c)
  /\ Begin(c, [call |-> [NewCall("saveImages", recs) EXCEPT !.pc = "begin"],
               post |-> <<Request(c, "BEGIN", NULL)>>])

CallDeleteImage(c, p) ==
  /\ MayCall(c)
  /\ Begin(c, [call |-> [NewCall("deleteImage", <<>>) EXCEPT !.pc = "delete", !.cur = p],
               post |-> <<Request(c, "DELETE", p)>>])

CallDeleteAll(c) ==
  /\ MayCall(c)
  /\ Begin(c, [call |-> [NewCall("deleteAll", <<>>) EXCEPT !.pc = "delete"],
               post |-> <<Request(c, "DELETE_ALL", NULL)>>])

CallGetImageByPath(c, p) ==
  /\ MayCall(c)
  /\ Begin(c, [call |-> [NewCall("getImageByPath", <<>>) EXCEPT !.pc = "query", !.cur = p],
               post |-> <<Request(c, "SELECT", p)>>])

\* the metadata last saved for path p once call cl has resolved
RECURSIVE LastIn(_, _, _)
LastIn(images, p, old) ==
  IF images = <<>> THEN old
  ELSE LET r == images[Len(images)]
       IN IF r.path = p THEN r.metadata ELSE LastIn(SubSeq(images, 1, Len(images) - 1), p, old)

NoteSaved(cl) ==
  IF cl.pc # "resolved" THEN lastSaved
  ELSE CASE cl.op \in {"saveImage", "saveImages"} ->
              [p \in RepoPaths |-> LastIn(cl.images, p, lastSaved[p])]
         [] cl.op = "deleteImage" -> [lastSaved EXCEPT ![cl.cur] = NULL]
         [] cl.op = "deleteAll" -> [p \in RepoPaths |-> NULL]
         [] OTHER -> lastSaved

\* ------------------------------------------------------------------ import pipeline
Min(a, b) == IF a < b THEN a ELSE b

Max(a, b) == IF a > b THEN a ELSE b

\* a count that takes a missing hardwareConcurrency for a single core
MutGetOptimalWorkerCount(cores) == Min(Max(cores - 1, 1), MAX_WORKERS)

\* getOptimalWorkerCount, for navigator.hardwareConcurrency = cores
GetOptimalWorkerCount(cores) ==
  Min(Max((IF cores = 0 THEN 4 ELSE cores) - 1, 1), MAX_WORKERS)

EnumWorker == 0

Workers == 1..input.workerCount

NoInput ==
  [strategy |-> "none", files |-> <<>>, corrupt |-> {}, hasRepo |-> FALSE,
   batchSize |-> 1, workerCount |-> 0]

NoImport ==
  [ipc |-> "none", ierr |-> NULL, results |-> <<>>, batchesToSave |-> <<>>,
   completedFiles |-> 0, fileIndex |-> 0, terminated |-> {}, wst |-> <<>>,
   werr |-> <<>>, wbatch |-> <<>>, batchIndex |-> 0, dispatched |-> <<>>,
   reports |-> <<>>]

ExtractionError == "Failed to extract metadata"

\* extractImageMetadata(file) for the file at path p: the metadata object, or
\* NULL when exifr throws
ExtractImageMetadata(p) == IF p \in input.corrupt THEN NULL ELSE <<"meta", p>>

\* import.worker, process-batch: the result entry for one path of the batch
ProcessFile(p) ==
  IF ExtractImageMetadata(p) = NULL
    THEN [path |-> p, metadata |-> NULL, error |-> ExtractionError]
    ELSE [path |-> p, metadata |-> ExtractImageMetadata(p), error |-> NULL]

\* a worker that leaves the files it could not extract out of its results
MutWorkerResults(batch) ==
  SelectSeq([k \in 1..Len(batch) |-> ProcessFile(batch[k])], LAMBDA e : e.error = NULL)

\* import.worker, process-batch: the results of a batch-complete message
WorkerResults(batch) == [k \in 1..Len(batch) |-> ProcessFile(batch[k])]

\* step 3 of importImagesWithWorkers: allFiles sliced into batches
BatchCount(files, size) == (Len(files) + size - 1) \div size

\* slices one element too long, so that consecutive batches overlap
MutBatches(files, size) ==
  [b \in 1..BatchCount(files, size) |->
     SubSeq(files, (b - 1) * size + 1, Min(b * size + 1, Len(files)))]

Batches(files, size) ==
  [b \in 1..BatchCount(files, size) |->
     SubSeq(files, (b - 1) * size + 1, Min(b * size, Len(files)))]

AllBatches == Batches(input.files, input.batchSize)

\* processBatch posting the batch of the index before batchIndex
MutProcessBatch(s, w) ==
  IF s.batchIndex >= Len(AllBatches)
    THEN [s EXCEPT !.wst[w] = "done"]
    ELSE [s EXCEPT !.wst[w] = "busy",
                   !.wbatch[w] = Max(s.batchIndex - 1, 0),
                   !.batchIndex = s.batchIndex + 1,
                   !.dispatched = Append(@, [worker |-> w, index |-> Max(s.batchIndex - 1, 0)])]

\* processBatch(worker): the batch at batchIndex is claimed and posted to the
\* worker, or the worker's promise chain resolves when no batch is left
ProcessBatch(s, w) ==
  IF s.batchIndex >= Len(AllBatches)
    THEN [s EXCEPT !.wst[w] = "done"]
    ELSE [s EXCEPT !.wst[w] = "busy",
                   !.wbatch[w] = s.batchIndex,
                   !.batchIndex = s.batchIndex + 1,
                   !.dispatched = Append(@, [worker |-> w, index |-> s.batchIndex])]

\* workers.map(worker => processBatch(worker)), from worker w on
RECURSIVE StartAll(_, _)
StartAll(s, w) == IF w > input.workerCount THEN s ELSE StartAll(ProcessBatch(s, w), w + 1)

\* await Promise.all(...) and what follows it: once every worker's chain has
\* resolved the pool is terminated and the results are returned, after a
\* last saveImages when batchesToSave is not empty
AwaitAll(s) ==
  IF s.ipc = "pool" /\ \A w \in Workers : s.wst[w] = "done"
    THEN [s EXCEPT !.terminated = @ \cup Workers,
                   !.ipc = IF input.hasRepo /\ s.batchesToSave # <<>>
                             THEN "finalSave" ELSE "resolved"]
    ELSE s

\* the promise of worker w rejects with e; Promise.all rejects with the first
\* rejection and importImagesWithWorkers throws out of its await
RejectWorker(s, w, e) ==
  [s EXCEPT !.wst[w] = "failed",
            !.ipc = IF s.ipc = "pool" THEN "rejected" ELSE @,
            !.ierr = IF s.ipc = "pool" THEN e ELSE @]

\* handler, batch-complete: the results are merged
MergeResults(s, res) ==
  [s EXCEPT !.results = @ \o res,
            !.batchesToSave = @ \o res,
            !.completedFiles = @ + Len(res)]

\* options.onProgress(completed, total): the calls the caller has received
OnProgress(s, completed, total) == [s EXCEPT !.reports = Append(@, <<completed, total>>)]

\* a handler that goes on to the next batch without reporting
MutAfterSave(s, w) == AwaitAll(ProcessBatch(s, w))

\* handler, after the save: progress is reported and the worker gets its
\* next batch
AfterSave(s, w) ==
  AwaitAll(ProcessBatch(OnProgress(s, s.completedFiles, Len(input.files)), w))

\* handler, saveImages rejected: the async handler throws, its promise is
\* dropped by the event dispatch and neither resolve nor reject is called
SaveFailed(s, w, e) == [s EXCEPT !.wst[w] = "stuck", !.werr[w] = e]

\* a saveImages(batchesToSave) call begins
SaveBatches(c, owner) ==
  [IdleCall EXCEPT !.op = "saveImages", !.owner = owner, !.pc = "begin", !.shared = TRUE]

\* the requests and calls the main coroutine starts when s is reached
FinalSavePost(s) ==
  IF s.ipc = "finalSave" /\ imp.ipc # "finalSave"
    THEN <<Request(Main, "BEGIN", NULL)>> ELSE <<>>

FinalSaveCall(s, calls) ==
  IF s.ipc = "finalSave" /\ imp.ipc # "finalSave"
    THEN [calls EXCEPT ![Main] = SaveBatches(Main, "final")] ELSE calls

\* the enumeration worker answers enumeration-complete: it is terminated,
\* the batches are built, the pool is created and started
EnumerationComplete ==
  /\ input.strategy = "parallel"
  /\ imp.ipc = "enumerating"
  /\ LET s0 == [imp EXCEPT !.ipc = "pool", !.terminated = {EnumWorker},
                           !.wst = [w \in Workers |-> "idle"],
                           !.werr = [w \in Workers |-> NULL],
                           !.wbatch = [w \in Workers |-> -1]]
         s1 == AwaitAll(StartAll(s0, 1))
     IN /\ imp' = s1
        /\ dbQueue' = dbQueue \o FinalSavePost(s1)
        /\ call' = FinalSaveCall(s1, call)
  /\ UNCHANGED <<dbVars, clientVars, input, storeVars, queryVars>>

\* the enumeration worker answers with an error message or fires its error
\* event: the promise rejects and importImagesWithWorkers throws
EnumerationError ==
  /\ input.strategy = "parallel"
  /\ imp.ipc = "enumerating"
  /\ \E e \in {"error message", "error event"} :
       imp' = [imp EXCEPT !.ipc = "rejected", !.ierr = e]
  /\ UNCHANGED <<dbVars, dbQueue, call, clientVars, input, storeVars, queryVars>>

\* worker w answers batch-complete and the handler runs up to its await
HandleBatchComplete(w) ==
  /\ input.strategy = "parallel"
  /\ w \in DOMAIN imp.wst
  /\ imp.wst[w] = "busy"
  /\ LET s1 == MergeResults(imp, WorkerResults(AllBatches[imp.wbatch[w] + 1]))
     IN IF input.hasRepo /\ s1.batchesToSave # <<>>
          THEN /\ imp' = [s1 EXCEPT !.wst[w] = "saving"]
               /\ call' = [call EXCEPT ![w] = SaveBatches(w, "handler")]
               /\ dbQueue' = Append(dbQueue, Request(w, "BEGIN", NULL))
          ELSE LET s2 == AfterSave(s1, w)
               IN /\ imp' = s2
                  /\ call' = FinalSaveCall(s2, call)
                  /\ dbQueue' = dbQueue \o FinalSavePost(s2)
  /\ UNCHANGED <<dbVars, clientVars, input, storeVars, queryVars>>

\* worker w answers with an error message, or fires its error event
HandleWorkerError(w) ==
  /\ input.strategy = "parallel"
  /\ w \in DOMAIN imp.wst
  /\ imp.wst[w] = "busy"
  /\ \E e \in {"error message", "error event"} : imp' = RejectWorker(imp, w, e)
  /\ UNCHANGED <<dbVars, dbQueue, call, clientVars, input, storeVars, queryVars>>

\* the sequential loop: the result entry of file i is pushed, progress is
\* reported and the loop goes on or importImages returns
SeqPush(s, entry) ==
  [OnProgress(s, s.fileIndex + 1, Len(input.files))
     EXCEPT !.results = Append(@, entry),
            !.fileIndex = @ + 1,
            !.completedFiles = @ + 1,
            !.ipc = IF s.fileIndex + 1 >= Len(input.files) THEN "resolved" ELSE "extract"]

\* the sequential loop, catch block: the entry recorded for an error
SeqCatch(p, e) == [path |-> p, metadata |-> NULL, error |-> e]

\* the sequential loop: extractImageMetadata(file) settles for file i
SeqExtract ==
  /\ input.strategy = "sequential"
  /\ imp.ipc = "extract"
  /\ LET p == input.files[imp.fileIndex + 1]
         metadata == ExtractImageMetadata(p)
         imageData == [path |-> p, metadata |-> metadata, error |-> NULL]
     IN IF metadata = NULL
          THEN /\ imp' = SeqPush(imp, SeqCatch(p, ExtractionError))
               /\ UNCHANGED <<call, dbQueue>>
          ELSE IF input.hasRepo
            THEN LET k == SaveImage(Main, [IdleCall EXCEPT !.op = "saveImage", !.owner = "seq",
                                                          !.images = <<imageData>>], imageData)
                 IN /\ imp' = [imp EXCEPT !.ipc = "saving"]
                    /\ call' = [call EXCEPT ![Main] = k.call]
                    /\ dbQueue' = dbQueue \o k.post
            ELSE /\ imp' = SeqPush(imp, imageData)
                 /\ UNCHANGED <<call, dbQueue>>
  /\ UNCHANGED <<dbVars, clientVars, input, storeVars, queryVars>>

\* what follows the response in the caller of the repository: a client
\* sees its call settle; a batch-complete handler clears batchesToSave and
\* goes on, or throws; the sequential loop pushes the entry of the file
AfterResponse(c, k, queue) ==
  IF ~Settled(k.call) \/ k.call.owner = "api"
    THEN /\ call' = [call EXCEPT ![c] = IF Settled(k.call)
                                          THEN [k.call EXCEPT !.images = <<>>]
                                          ELSE k.call]
         /\ dbQueue' = queue
         /\ lastSaved' = NoteSaved(k.call)
         /\ UNCHANGED <<ncalls, pre, input, imp>>
    ELSE LET s == CASE k.call.owner = "handler" ->
                         IF k.call.pc = "resolved"
                           THEN AfterSave([imp EXCEPT !.batchesToSave = <<>>], c)
                           ELSE SaveFailed(imp, c, k.call.err)
                    [] k.call.owner = "seq" ->
                         IF k.call.pc = "resolved"
                           THEN SeqPush(imp, k.call.images[1])
                           ELSE SeqPush(imp, SeqCatch(k.call.cur, k.call.err))
                    [] k.call.owner = "final" ->
                         IF k.call.pc = "resolved"
                           THEN [imp EXCEPT !.ipc = "resolved"]
                           ELSE [imp EXCEPT !.ipc = "rejected", !.ierr = k.call.err]
         IN /\ imp' = s
            /\ call' = FinalSaveCall(s, [call EXCEPT ![c] = IdleCall])
            /\ dbQueue' = queue \o FinalSavePost(s)
            /\ UNCHANGED <<ncalls, pre, lastSaved, input>>

\* the SQLite worker handles the request at the head of its queue and the
\* caller awaiting the response runs to its next await
DbStep ==
  /\ dbQueue # <<>>
  /\ LET req == Head(dbQueue)
         c == req.from
     IN \E fail \in FaultChoices(req) :
          LET res == ExecSQL(Db, req, fail)
              k == Resume(c, call[c], ImagesOf(c), res)
          IN /\ tbl' = res.db.tbl
             /\ seq' = res.db.seq
             /\ txOpen' = res.db.txOpen
             /\ snap' = res.db.snap
             /\ UNCHANGED <<flaky, storeVars, queryVars>>
             /\ firstErr' = IF res.err # NULL /\ firstErr = NoErr
                              THEN [sql |-> req.sql, err |-> res.err]
                              ELSE firstErr
             /\ AfterResponse(c, k, Tail(dbQueue) \o k.post)

\* ------------------------------------------------------------------ specifications
InitDb ==
  /\ tbl = {}
  /\ seq = 0
  /\ txOpen = FALSE
  /\ snap = NoSnap
  /\ dbQueue = <<>>
  /\ call = [c \in Callers |-> IdleCall]

InitRepo ==
  /\ InitDb
  /\ flaky \in BOOLEAN
  /\ ncalls = 0
  /\ pre = {}
  /\ firstErr = NoErr
  /\ lastSaved = [p \in RepoPaths |-> NULL]
  /\ input = NoInput
  /\ imp = NoImport
  /\ StoreIdle
  /\ QueryIdle

NextRepo ==
  \/ \E rec \in Records : CallSaveImage(Main, rec)
  \/ \E recs \in Lists : CallSaveImages(Main, recs)
  \/ \E p \in RepoPaths : CallDeleteImage(Main, p)
  \/ CallDeleteAll(Main)
  \/ \E p \in RepoPaths : CallGetImageByPath(Main, p)
  \/ DbStep

\* the repository used by a client that awaits each call before the next
SpecRepo == InitRepo /\ [][NextRepo]_vars

\* the directories, options and hardware importImages is called with
Inputs ==
  {[strategy |-> st, files |-> [i \in 1..n |-> PathOf(i)], corrupt |-> cs, hasRepo |-> r,
    batchSize |-> b, workerCount |-> GetOptimalWorkerCount(cores)] :
     st \in {"parallel"}, n \in 1..MaxFiles, cs \in SUBSET {PathOf(i) : i \in 1..MaxFiles},
     r \in BOOLEAN, b \in 1..MaxBatchSize, cores \in 1..MaxCores}
  \cup
  {[strategy |-> st, files |-> [i \in 1..n |-> PathOf(i)], corrupt |-> cs, hasRepo |-> r,
    batchSize |-> 1, workerCount |-> 0] :
     st \in {"sequential"}, n \in 0..MaxFiles, cs \in SUBSET {PathOf(i) : i \in 1..MaxFiles},
     r \in BOOLEAN}

InitImport ==
  /\ InitDb
  /\ flaky \in BOOLEAN
  /\ ncalls = 0
  /\ pre = {}
  /\ firstErr = NoErr
  /\ lastSaved = [p \in RepoPaths |-> NULL]
  /\ input \in {x \in Inputs : x.corrupt \subseteq {x.files[i] : i \in 1..Len(x.files)}}
  /\ imp = [NoImport EXCEPT !.ipc = IF input.strategy = "parallel" THEN "enumerating"
                                    ELSE IF input.files = <<>> THEN "resolved"
                                    ELSE "extract"]
  /\ StoreIdle
  /\ QueryIdle

NextImport ==
  \/ EnumerationComplete
  \/ EnumerationError
  \/ \E w \in 1..MAX_WORKERS : HandleBatchComplete(w)
  \/ \E w \in 1..MAX_WORKERS : HandleWorkerError(w)
  \/ SeqExtract
  \/ DbStep

\* one invocation of importImages, on either path
SpecImport == InitImport /\ [][NextImport]_vars

\* every task that is ready runs: the SQLite worker answers each request, each
\* import worker answers each message, each extraction settles
FairSpecImport ==
  /\ SpecImport
  /\ WF_vars(DbStep)
  /\ WF_vars(EnumerationComplete \/ EnumerationError)
  /\ \A w \in 1..MAX_WORKERS : WF_vars(HandleBatchComplete(w) \/ HandleWorkerError(w))
  /\ WF_vars(SeqExtract)

\* ------------------------------------------------------------------ claims
Parallel == input.strategy = "parallel"

Sequential == input.strategy = "sequential"

FilePaths == {input.files[i] : i \in 1..Len(input.files)}

ResultPaths == {imp.results[i].path : i \in 1..Len(imp.results)}

Stored == {r.path : r \in tbl}

ImportSettled == imp.ipc \in {"resolved", "rejected"}

WorkerIn(states) == \E w \in DOMAIN imp.wst : imp.wst[w] \in states

\* C1: the result list a parallel import returns has exactly one entry per
\* enumerated path, none twice and none missing, for every worker count,
\* batch size and order of batch completions
C1_ParallelComplete ==
  (Parallel /\ imp.ipc = "resolved") =>
     /\ Len(imp.results) = Len(input.files)
     /\ ResultPaths = FilePaths
     /\ Cardinality(ResultPaths) = Len(imp.results)

\* two workers, three batches, and the batches completed out of order
C1_Witness ==
  /\ Parallel /\ imp.ipc = "resolved"
  /\ input.workerCount >= 2 /\ Len(AllBatches) >= 3
  /\ imp.results[1].path # input.files[1]

\* C2: when a parallel import with a repository resolves, the images table
\* holds a row for the path of every entry of the returned results
C2_Persisted ==
  (Parallel /\ input.hasRepo /\ imp.ipc = "resolved") => ResultPaths \subseteq Stored

\* C3: a parallel import whose workers and storage engine answer everything
\* they are sent settles: while it is pending, some task is still to run
C3_Settles == (Parallel /\ ~ImportSettled) => ENABLED NextImport

\* the batch indexes posted to workers so far
DispatchedIndexes == {imp.dispatched[i].index : i \in 1..Len(imp.dispatched)}

ExactlyOnce ==
  /\ \A i, j \in 1..Len(imp.dispatched) :
       imp.dispatched[i].index = imp.dispatched[j].index => i = j
  /\ DispatchedIndexes = 0..(imp.batchIndex - 1)
  /\ imp.batchIndex <= Len(AllBatches)

AllDispatched == DispatchedIndexes = 0..(Len(AllBatches) - 1)

\* a worker or the enumeration answered with an error: the import is aborted
WorkerFailed == imp.ipc = "rejected" \/ WorkerIn({"failed"})

\* the storage engine rejected a statement of a batch for reasons of its own
EngineFailed ==
  \E w \in DOMAIN imp.wst :
    imp.wst[w] = "stuck" /\ imp.werr[w] = "statement rejected by the engine"

C5_AllOrNothing ==
  \A c \in Callers :
    (call[c].op = "saveImages" /\ call[c].owner = "api" /\ call[c].pc = "rejected"
       /\ firstErr.sql = "INSERT")
    => (tbl = pre /\ call[c].err = firstErr.err)

\* the second record of a list failed after the first had been written
C5_Witness ==
  /\ call[Main].op = "saveImages" /\ call[Main].pc = "rejected"
  /\ call[Main].i = 2 /\ firstErr.sql = "INSERT"
  /\ pre # {}

\* C6: at most one row per path; with no call in flight the row of a path
\* carries the metadata of its latest successful save (no row after a
\* delete); getImageByPath returns that metadata; different paths have
\* different rows
RowsOf(p) == {r \in tbl : r.path = p}

C7_StorageRejects ==
  \A w \in DOMAIN imp.wst :
    imp.wst[w] = "stuck" => (imp.ipc = "rejected" /\ imp.ierr = imp.werr[w])

\* C8: on the sequential path a failed saveImage is not turned into a result
\* entry: the only errors recorded in the results are extraction failures
C8_StorageSurfaces ==
  Sequential =>
    \A i \in 1..Len(imp.results) :
      imp.results[i].error # NULL => imp.results[i].path \in input.corrupt

\* C9: a file whose extraction fails is reported with null metadata and an
\* error string, the files after it are processed all the same and reported,
\* and the import does not reject with the extraction error
BatchHandled(d) ==
  ~(imp.wst[d.worker] \in {"busy", "failed"} /\ imp.wbatch[d.worker] = d.index)

C9_ExtractionNonFatal ==
  /\ \A i \in 1..Len(imp.results) :
       imp.results[i].path \in input.corrupt =>
         (imp.results[i].metadata = NULL /\ imp.results[i].error = ExtractionError)
  /\ imp.ierr # ExtractionError
  /\ Sequential =>
       /\ imp.ipc # "rejected"
       /\ Len(imp.results) = imp.fileIndex
       /\ \A i \in 1..Len(imp.results) : imp.results[i].path = input.files[i]
  /\ Parallel =>
       /\ \A k \in 1..Len(imp.dispatched) :
            BatchHandled(imp.dispatched[k]) =>
              \A j \in 1..Len(AllBatches[imp.dispatched[k].index + 1]) :
                AllBatches[imp.dispatched[k].index + 1][j] \in ResultPaths
       /\ imp.ipc = "resolved" => ResultPaths = FilePaths

\* the first file reported failed to extract and a file of a later batch
\* was extracted and reported after it
C9_Witness ==
  /\ Parallel /\ imp.ipc = "resolved" /\ Len(imp.results) >= 2
  /\ imp.results[1].error = ExtractionError /\ imp.results[1].metadata = NULL
  /\ imp.results[Len(imp.results)].metadata # NULL
  /\ input.batchSize = 1

\* C10: when a parallel import has settled, the enumeration worker and every
\* pool worker have been terminated
C10_TornDown ==
  (Parallel /\ ImportSettled) => imp.terminated = {EnumWorker} \cup Workers

\* ------------------------------------------------------------------ SQLiteWorker
\* requests an adapter sends in one behaviour
MaxRequests == 7
\* calls clients make on the adapter in one behaviour
MaxApiCalls == 3

NotInitializedError == "Database not initialized. Call init() first."

WorkerError == "Worker error"

NoRequest == -1

pipelineVars == <<tbl, seq, txOpen, snap, dbQueue, flaky, call, ncalls, pre, firstErr,
                  lastSaved, input, imp>>

\* the SQLiteWorker object with the promises it handed out
Adapter ==
  [messageId |-> messageId, pendingRequests |-> pendingRequests,
   initialized |-> initialized, terminated |-> terminated,
   promise |-> promise, toWorker |-> toWorker]

SetAdapter(a) ==
  /\ messageId' = a.messageId
  /\ pendingRequests' = a.pendingRequests
  /\ initialized' = a.initialized
  /\ terminated' = a.terminated
  /\ promise' = a.promise
  /\ toWorker' = a.toWorker

\* sendMessage(type): the next id is taken, the resolvers are stored under
\* it and the message is posted (a terminated worker receives nothing)
SendMessage(a, type) ==
  [a EXCEPT !.messageId = a.messageId + 1,
            !.pendingRequests = a.pendingRequests \cup {a.messageId},
            !.promise = Append(a.promise, [id |-> a.messageId, type |-> type, st |-> "pending",
                                           by |-> NoRequest, err |-> NULL, n |-> 0]),
            !.toWorker = IF a.terminated THEN a.toWorker
                         ELSE Append(a.toWorker, [id |-> a.messageId, type |-> type])]

\* onmessage taking the oldest pending request whatever id the response carries
MutPendingFor(a, id) ==
  IF a.pendingRequests = {} THEN NoRequest
  ELSE CHOOSE x \in a.pendingRequests : \A y \in a.pendingRequests : x <= y

\* onmessage: pendingRequests.get(id)
PendingFor(a, id) == IF id \in a.pendingRequests THEN id ELSE NoRequest

\* onmessage: the pending request of the response is deleted and settled; a
\* response without a pending request is dropped
Deliver(a, resp) ==
  LET id == PendingFor(a, resp.id)
  IN IF id = NoRequest THEN a
     ELSE [a EXCEPT !.pendingRequests = @ \ {id},
                    !.promise[id + 1] =
                       [@ EXCEPT !.st = IF resp.type = "error" THEN "rejected" ELSE "resolved",
                                 !.by = resp.id, !.err = resp.error, !.n = @ + 1]]

\* onerror: every pending request is rejected and the map is cleared
RejectAll(a) ==
  [a EXCEPT !.pendingRequests = {},
            !.promise = [k \in 1..Len(a.promise) |->
                           IF a.promise[k].id \in a.pendingRequests
                             THEN [a.promise[k] EXCEPT !.st = "rejected",
                                                       !.err = WorkerError, !.n = @ + 1]
                             ELSE a.promise[k]]]

\* close(), after the close request: initialized is reset, the worker is
\* terminated and the map is cleared
Terminate(a) ==
  [a EXCEPT !.initialized = FALSE, !.terminated = TRUE, !.pendingRequests = {}]

\* whether close() has completed on the adapter
Closed(calls) == \E k \in 1..Len(calls) : calls[k].op = "close" /\ calls[k].st = "resolved"

ApiCall(op, st, err, req) ==
  [op |-> op, st |-> st, err |-> err, req |-> req, afterClose |-> Closed(acalls)]

\* the continuation of the init / exec / query / export / close call that
\* awaits request id, once its promise has settled
ContinueCall(a, c, id) ==
  LET p == a.promise[id + 1]
  IN IF c.st # "awaiting" \/ c.req # id \/ p.st = "pending" THEN [a |-> a, c |-> c]
     ELSE IF p.st = "rejected"
       THEN [a |-> a, c |-> [c EXCEPT !.st = "rejected", !.err = p.err]]
     ELSE CASE c.op = "init" ->
                 [a |-> [a EXCEPT !.initialized = TRUE], c |-> [c EXCEPT !.st = "resolved"]]
            [] c.op = "close" ->
                 [a |-> Terminate(a), c |-> [c EXCEPT !.st = "resolved"]]
            [] OTHER -> [a |-> a, c |-> [c EXCEPT !.st = "resolved"]]

\* the continuations run by the microtasks of one task, in the order of the calls
RECURSIVE ContinueAll(_, _, _, _)
ContinueAll(a, calls, ids, k) ==
  IF k > Len(calls) THEN [a |-> a, calls |-> calls]
  ELSE IF calls[k].st = "awaiting" /\ calls[k].req \in ids
    THEN LET r == ContinueCall(a, calls[k], calls[k].req)
         IN ContinueAll(r.a, [calls EXCEPT ![k] = r.c], ids, k + 1)
    ELSE ContinueAll(a, calls, ids, k + 1)

MayCallApi == Len(acalls) < MaxApiCalls /\ messageId < MaxRequests

\* SQLiteWorker.init()
CallInit ==
  /\ MayCallApi
  /\ IF initialized
       THEN /\ acalls' = Append(acalls, ApiCall("init", "resolved", NULL, NoRequest))
            /\ SetAdapter(Adapter)
       ELSE /\ acalls' = Append(acalls, ApiCall("init", "awaiting", NULL, messageId))
            /\ SetAdapter(SendMessage(Adapter, "init"))
  /\ UNCHANGED <<toMain, workerDb, repoInitialized, repoInit, rcall, pipelineVars, queryVars>>

\* SQLiteWorker.exec / query / export
CallRun(op) ==
  /\ MayCallApi
  /\ IF ~initialized
       THEN /\ acalls' = Append(acalls, ApiCall(op, "rejected", NotInitializedError, NoRequest))
            /\ SetAdapter(Adapter)
       ELSE /\ acalls' = Append(acalls, ApiCall(op, "awaiting", NULL, messageId))
            /\ SetAdapter(SendMessage(Adapter, op))
  /\ UNCHANGED <<toMain, workerDb, repoInitialized, repoInit, rcall, pipelineVars, queryVars>>

\* SQLiteWorker.close()
CallClose ==
  /\ MayCallApi
  /\ IF initialized
       THEN /\ acalls' = Append(acalls, ApiCall("close", "awaiting", NULL, messageId))
            /\ SetAdapter(SendMessage(Adapter, "close"))
       ELSE /\ acalls' = Append(acalls, ApiCall("close", "resolved", NULL, NoRequest))
            /\ SetAdapter(Terminate(Adapter))
  /\ UNCHANGED <<toMain, workerDb, repoInitialized, repoInit, rcall, pipelineVars, queryVars>>

\* sqlite.worker onmessage: the message at the head of its queue is handled
\* and answered; fail is the engine throwing
WorkerResponse(m, fail) ==
  CASE m.type = "init" ->
         IF fail THEN [id |-> m.id, type |-> "error", error |-> "Failed to initialize SQLite"]
         ELSE [id |-> m.id, type |-> "success", error |-> NULL]
    [] m.type = "close" -> [id |-> m.id, type |-> "success", error |-> NULL]
    [] OTHER ->
         IF workerDb # "open"
           THEN [id |-> m.id, type |-> "error", error |-> "Database not initialized"]
         ELSE IF fail THEN [id |-> m.id, type |-> "error", error |-> "SQL error"]
         ELSE [id |-> m.id, type |-> "success", error |-> NULL]

WorkerHandle ==
  /\ ~terminated
  /\ toWorker # <<>>
  /\ LET m == Head(toWorker)
     IN \E fail \in IF m.type = "close" THEN {FALSE} ELSE BOOLEAN :
          /\ toMain' = toMain \cup {WorkerResponse(m, fail)}
          /\ workerDb' = CASE m.type = "init" /\ ~fail -> "open"
                           [] m.type = "close" -> NULL
                           [] OTHER -> workerDb
  /\ toWorker' = Tail(toWorker)
  /\ UNCHANGED <<messageId, pendingRequests, initialized, terminated, promise, acalls,
                 repoInitialized, repoInit, rcall, pipelineVars, queryVars>>

\* ------------------------------------------------------------------ ImageRepository.init
RepoNotInitializedError == "Repository not initialized. Call init() first."

\* the statements of init(): CREATE TABLE and the three CREATE INDEX
InitStatements == 4

RepoMethods ==
  {"saveImage", "saveImages", "getImages", "getImageByPath", "getImageById",
   "searchImages", "getStatistics", "deleteImage", "deleteAll"}

\* the adapter calls a method makes before its first await
FirstRequests(op) ==
  CASE op \in {"saveImage", "saveImages", "deleteImage", "deleteAll"} -> <<"exec">>
    [] op = "getStatistics" -> <<"query", "query", "query", "query">>
    [] OTHER -> <<"query">>

\* a method testing the adapter's flag instead of the repository's
MutRepoReady(a, ready) == a.initialized

\* the test each method opens with: if (!this.initialized) throw
RepoReady(a, ready) == ready

\* init() resumes after db.init() (step 0, where the adapter becomes
\* initialized) or after one of its statements: the next statement is sent,
\* or the repository becomes initialized
ResumeInit(a, ri, ok) ==
  LET a1 == IF ri.step = 0 THEN [a EXCEPT !.initialized = TRUE] ELSE a
  IN IF ~ok THEN [a |-> a, ri |-> [ri EXCEPT !.st = "rejected", !.req = NoRequest],
                  ready |-> FALSE]
     ELSE IF ri.step = InitStatements
       THEN [a |-> a1, ri |-> [ri EXCEPT !.st = "resolved", !.req = NoRequest], ready |-> TRUE]
     ELSE IF ~a1.initialized
       THEN [a |-> a1, ri |-> [ri EXCEPT !.st = "rejected", !.req = NoRequest],
             ready |-> FALSE]
     ELSE [a |-> SendMessage(a1, "exec"),
           ri |-> [ri EXCEPT !.step = @ + 1, !.req = a1.messageId],
           ready |-> FALSE]

\* ImageRepository.init()
RepoInit ==
  /\ repoInit.st # "running"
  /\ ~repoInitialized
  /\ messageId + InitStatements + 1 <= MaxRequests
  /\ LET ri == [st |-> "running", step |-> 0, req |-> messageId]
         i == IF initialized THEN ResumeInit(Adapter, ri, TRUE)
              ELSE [a |-> SendMessage(Adapter, "init"), ri |-> ri, ready |-> FALSE]
     IN /\ SetAdapter(i.a)
        /\ repoInit' = i.ri
        /\ repoInitialized' = i.ready
  /\ UNCHANGED <<toMain, workerDb, acalls, rcall, pipelineVars, queryVars>>

RECURSIVE SendAll(_, _)
SendAll(a, types) ==
  IF types = <<>> THEN a ELSE SendAll(SendMessage(a, Head(types)), Tail(types))

\* a method of the repository is called: it throws when the repository is
\* not initialized, and otherwise makes its first calls on the adapter (what
\* follows them is the subject of SpecRepo)
RepoMethod(op) ==
  /\ (RepoReady(Adapter, repoInitialized) /\ initialized)
       => messageId + Len(FirstRequests(op)) <= MaxRequests
  /\ LET c == [op |-> op, initDone |-> repoInit.st = "resolved",
               initRunning |-> repoInit.st = "running"]
     IN IF ~RepoReady(Adapter, repoInitialized)
          THEN /\ rcall' = c @@ [st |-> "rejected", sent |-> 0,
                                  err |-> RepoNotInitializedError]
               /\ SetAdapter(Adapter)
        ELSE IF ~initialized
          THEN /\ rcall' = c @@ [st |-> "rejected", sent |-> 0, err |-> NotInitializedError]
               /\ SetAdapter(Adapter)
        ELSE /\ rcall' = c @@ [st |-> "started", err |-> NULL,
                                sent |-> Len(FirstRequests(op))]
             /\ SetAdapter(SendAll(Adapter, FirstRequests(op)))
  /\ UNCHANGED <<toMain, workerDb, acalls, repoInitialized, repoInit, pipelineVars, queryVars>>

\* SQLiteWorker onmessage: a response of the worker is delivered, the request
\* it belongs to is settled and the caller awaiting it goes on
OnMessage(resp) ==
  /\ resp \in toMain
  /\ toMain' = toMain \ {resp}
  /\ LET id == PendingFor(Adapter, resp.id)
         a1 == Deliver(Adapter, resp)
         r == ContinueAll(a1, acalls, {id}, 1)
         i == IF id # NoRequest /\ repoInit.st = "running" /\ repoInit.req = id
                THEN ResumeInit(r.a, repoInit, a1.promise[id + 1].st = "resolved")
                ELSE [a |-> r.a, ri |-> repoInit, ready |-> repoInitialized]
     IN /\ SetAdapter(i.a)
        /\ acalls' = r.calls
        /\ repoInit' = i.ri
        /\ repoInitialized' = i.ready
  /\ UNCHANGED <<workerDb, rcall, pipelineVars, queryVars>>

\* SQLiteWorker onerror: the worker fires its error event
WorkerOnError ==
  /\ ~terminated
  /\ LET ids == pendingRequests
         r == ContinueAll(RejectAll(Adapter), acalls, ids, 1)
         i == IF repoInit.st = "running" /\ repoInit.req \in ids
                THEN ResumeInit(r.a, repoInit, FALSE)
                ELSE [a |-> r.a, ri |-> repoInit, ready |-> repoInitialized]
     IN /\ SetAdapter(i.a)
        /\ acalls' = r.calls
        /\ repoInit' = i.ri
        /\ repoInitialized' = i.ready
  /\ UNCHANGED <<toMain, workerDb, rcall, pipelineVars, queryVars>>

\* nothing imported, no repository call in flight
PipelineIdle ==
  /\ InitDb
  /\ flaky = FALSE
  /\ ncalls = 0
  /\ pre = {}
  /\ firstErr = NoErr
  /\ lastSaved = [p \in RepoPaths |-> NULL]
  /\ input = NoInput
  /\ imp = NoImport

InitAdapter == PipelineIdle /\ StoreIdle /\ QueryIdle

NextAdapter ==
  \/ CallInit
  \/ \E op \in {"exec", "query", "export"} : CallRun(op)
  \/ CallClose
  \/ WorkerHandle
  \/ \E resp \in toMain : OnMessage(resp)
  \/ WorkerOnError

\* the adapter used directly by its clients
SpecAdapter == InitAdapter /\ [][NextAdapter]_vars

NextInit ==
  \/ RepoInit
  \/ \E op \in RepoMethods : RepoMethod(op)
  \/ WorkerHandle
  \/ \E resp \in toMain : OnMessage(resp)
  \/ WorkerOnError

\* a repository being initialized while its methods are called
SpecInit == InitAdapter /\ [][NextInit]_vars

\* ------------------------------------------------------------------ claims on the adapter
\* ids are handed out in increasing order and never twice; a request is
\* settled at most once, by the response carrying its id or by onerror
CorrelatedById ==
  /\ messageId = Len(promise)
  /\ \A k \in 1..Len(promise) :
       /\ promise[k].id = k - 1
       /\ promise[k].n <= 1
       /\ promise[k].st = "pending" <=> promise[k].n = 0
       /\ promise[k].st = "resolved" => promise[k].by = promise[k].id
       /\ promise[k].st = "rejected" =>
            \/ promise[k].by = promise[k].id
            \/ promise[k].by = NoRequest /\ promise[k].err = WorkerError
  /\ \A id \in pendingRequests : id < messageId /\ promise[id + 1].st = "pending"

\* a response whose id is not pending is dropped
UnknownDropped ==
  \A resp \in toMain :
    (OnMessage(resp) /\ resp.id \notin pendingRequests)
      => UNCHANGED <<messageId, pendingRequests, initialized, terminated, promise, acalls>>

\* C11: with any number of requests outstanding and their responses arriving
\* in any order, each request is settled at most once and only by the
\* response with its own id, ids increase strictly and are never reused, and
\* a response whose id is not pending changes neither the pending set nor
\* any promise
C11_Correlated == []CorrelatedById /\ [][UnknownDropped]_vars

\* a later request was answered before an earlier one that is still pending,
\* and a response for a request that is no longer pending is on its way
C11_Witness ==
  /\ \E j, k \in 1..Len(promise) :
       j < k /\ promise[j].st = "pending" /\ promise[k].st = "resolved"
  /\ \E resp \in toMain : resp.id \notin pendingRequests

\* C12: no request is dropped from the pending set unsettled: when the
\* worker is terminated or fires its error event, the requests pending at
\* that moment are rejected
C12_PendingRejected ==
  \A k \in 1..Len(promise) :
    promise[k].st = "pending" => promise[k].id \in pendingRequests

\* C13: every init, exec, query or export called after close() has
\* completed fails with the not-initialized error
C13_CloseTerminal ==
  \A k \in 1..Len(acalls) :
    (acalls[k].afterClose /\ acalls[k].op # "close")
      => (acalls[k].st = "rejected" /\ acalls[k].err = NotInitializedError)

\* ------------------------------------------------------------------ claims on init
\* a method called before init() completed has thrown the not-initialized error
RejectedBeforeInit ==
  (rcall.op # "none" /\ ~rcall.initDone)
    => (rcall.st = "rejected" /\ rcall.err = RepoNotInitializedError /\ rcall.sent = 0)

\* a method called before init() completed posts nothing to the engine
NothingSentBeforeInit ==
  \A op \in RepoMethods :
    (RepoMethod(op) /\ repoInit.st # "resolved")
      => UNCHANGED <<messageId, pendingRequests, promise, toWorker, workerDb>>

\* C14: each of the nine repository methods, called before init() has
\* completed (init() in progress included), fails with the not-initialized
\* error, sends no request to the storage engine and leaves the data as it is
C14_NotInitialized == []RejectedBeforeInit /\ [][NothingSentBeforeInit]_vars

\* getStatistics was called while init() was creating its indexes, the
\* adapter being initialized already
C14_Witness ==
  /\ rcall.op = "getStatistics" /\ rcall.initRunning /\ rcall.st = "rejected"
  /\ initialized /\ repoInit.st = "running" /\ repoInit.step >= 2

\* ------------------------------------------------------------------ the images table, all columns
\* saves made on the repository in one behaviour
MaxSaves == 2
\* largest offset and limit of a search
MaxPage == 2
\* seconds that pass in one behaviour
MaxClock == 2

\* undefined (a property that is not supplied) and SQL NULL (a column without value)
Undefined == -1

NoArray == <<>>

SqlNull == <<>>

\* GPS triples [degrees, minutes, seconds] as exifr delivers them: points on
\* the meridian of the query point, 5' and 6' of latitude away from it
GpsNear == <<0, 5, 0>>

GpsFar == <<0, 6, 0>>

GpsZero == <<0, 0, 0>>

\* the metadata objects saved: taken on day 1 without GPS, on day 2 near
\* the query point, on day 1 far from it, on day 2 with a latitude alone
Metadata ==
  {[DateTimeOriginal |-> 1, GPSLatitude |-> NoArray, GPSLongitude |-> NoArray],
   [DateTimeOriginal |-> 2, GPSLatitude |-> GpsNear, GPSLongitude |-> GpsZero],
   [DateTimeOriginal |-> 1, GPSLatitude |-> GpsFar, GPSLongitude |-> GpsZero],
   [DateTimeOriginal |-> 2, GPSLatitude |-> GpsNear, GPSLongitude |-> NoArray]}

ImageData == {[path |-> p, metadata |-> m, error |-> NULL] : p \in RepoPaths, m \in Metadata}

\* toISOString of a date: texts of one length, ordered as the dates are
ToISOString(d) == <<"iso", d>>

IsoLeq(s, t) == s[2] <= t[2]

\* saveImage: dbRecord of an image whose metadata object carries a capture
\* date, with the columns the queries read
DbRecordOf(imageData) ==
  [path |-> imageData.path,
   metadata |-> Stringify(imageData.metadata),
   dateTimeOriginal |-> ToISOString(imageData.metadata.DateTimeOriginal),
   gpsLatitude |-> IF imageData.metadata.GPSLatitude # NoArray
                     THEN Stringify(imageData.metadata.GPSLatitude) ELSE SqlNull,
   gpsLongitude |-> IF imageData.metadata.GPSLongitude # NoArray
                      THEN Stringify(imageData.metadata.GPSLongitude) ELSE SqlNull]

\* INSERT OR REPLACE INTO images (..., updatedAt) VALUES (..., CURRENT_TIMESTAMP)
\* at second clk: the row in conflict on path is deleted; the new row gets the
\* next id, createdAt by its DEFAULT CURRENT_TIMESTAMP and updatedAt as given
InsertOrReplaceAt(rows, id, r, clk) ==
  {x \in rows : x.path # r.path}
    \cup {r @@ [id |-> id, createdAt |-> clk, updatedAt |-> clk]}

\* parseGPSArray
ParseGPSArray(s) ==
  IF s = SqlNull THEN NoArray
  ELSE IF Len(Parse(s)) = 3 THEN Parse(s) ELSE NoArray

\* transformRecord with the queryable columns
TransformRow(raw) ==
  [id |-> raw.id, path |-> raw.path, dateTimeOriginal |-> raw.dateTimeOriginal,
   gpsLatitude |-> ParseGPSArray(raw.gpsLatitude),
   gpsLongitude |-> ParseGPSArray(raw.gpsLongitude),
   createdAt |-> raw.createdAt, updatedAt |-> raw.updatedAt]

\* gpsArrayToDecimal, in arc seconds (degrees times 3600)
GpsArrayToDecimal(g) == g[1] * 3600 + g[2] * 60 + g[3]

Abs(x) == IF x < 0 THEN 0 - x ELSE x

\* the Haversine distance in millimetres, for two points on one meridian or
\* both on the equator: 6371 km times the angle, 30887 mm per arc second
Haversine(lat1, lon1, lat2, lon2) ==
  IF lon1 = lon2 THEN Abs(lat1 - lat2) * 30887 ELSE Abs(lon1 - lon2) * 30887

\* const { latitude, longitude, radiusKm = 10 } = query.nearLocation, with
\* the default left out
MutRadiusKm(near) == near.radiusKm

\* const { latitude, longitude, radiusKm = 10 } = query.nearLocation
RadiusKm(near) == IF near.radiusKm = Undefined THEN 10 ELSE near.radiusKm

\* nearLocationFilter
NearLocationFilter(record, near) ==
  IF record.gpsLatitude = NoArray \/ record.gpsLongitude = NoArray THEN FALSE
  ELSE Haversine(GpsArrayToDecimal(record.gpsLatitude), GpsArrayToDecimal(record.gpsLongitude),
                 near.latitude, near.longitude) <= RadiusKm(near) * 1000000

\* path LIKE '%sub%' for a directory name sub
PathLike(path, sub) == path[1] = sub

\* the conditions pushed for a query, each a text of atoms and connectives
Conditions(q) ==
  (IF q.path # "" THEN <<<<"path LIKE ?">>>> ELSE <<>>)
  \o (IF q.dateFrom # 0 THEN <<<<"dateTimeOriginal >= ?">>>> ELSE <<>>)
  \o (IF q.dateTo # 0 THEN <<<<"dateTimeOriginal <= ?">>>> ELSE <<>>)
  \o (CASE q.hasGPS = "true" ->
             <<<<"gpsLatitude IS NOT NULL", "AND", "gpsLongitude IS NOT NULL">>>>
        [] q.hasGPS = "false" -> <<<<"gpsLatitude IS NULL", "OR", "gpsLongitude IS NULL">>>>
        [] OTHER -> <<>>)
  \o (IF q.near.given
        THEN <<<<"gpsLatitude IS NOT NULL", "AND", "gpsLongitude IS NOT NULL">>>> ELSE <<>>)

\* conditions.join(' AND ')
RECURSIVE JoinAnd(_)
JoinAnd(conds) ==
  IF conds = <<>> THEN <<>>
  ELSE IF Len(conds) = 1 THEN conds[1]
  ELSE conds[1] \o <<"AND">> \o JoinAnd(Tail(conds))

\* the engine evaluating one atom of the WHERE clause on a row
EvalAtom(atom, row, q) ==
  CASE atom = "path LIKE ?" -> PathLike(row.path, q.path)
    [] atom = "dateTimeOriginal >= ?" -> IsoLeq(ToISOString(q.dateFrom), row.dateTimeOriginal)
    [] atom = "dateTimeOriginal <= ?" -> IsoLeq(row.dateTimeOriginal, ToISOString(q.dateTo))
    [] atom = "gpsLatitude IS NOT NULL" -> row.gpsLatitude # SqlNull
    [] atom = "gpsLongitude IS NOT NULL" -> row.gpsLongitude # SqlNull
    [] atom = "gpsLatitude IS NULL" -> row.gpsLatitude = SqlNull
    [] atom = "gpsLongitude IS NULL" -> row.gpsLongitude = SqlNull

\* the engine evaluating the WHERE clause: AND binds tighter than OR, so the
\* clause is true when some stretch of it between two ORs has all atoms true
EvalWhere(tokens, row, q) ==
  LET cuts == {0, Len(tokens) + 1} \cup {i \in 1..Len(tokens) : tokens[i] = "OR"}
  IN \E s, e \in cuts :
       /\ s < e
       /\ \A i \in (s + 1)..(e - 1) : tokens[i] # "OR"
       /\ \A i \in (s + 1)..(e - 1) : tokens[i] = "AND" \/ EvalAtom(tokens[i], row, q)

\* the lists holding each row of a set once
ListsOf(rows) ==
  {l \in [1..Cardinality(rows) -> rows] : \A i, j \in 1..Cardinality(rows) : l[i] = l[j] => i = j}

\* ORDER BY dateTimeOriginal DESC: rows of equal date come in any order
OrderByDateDesc(rows) ==
  {l \in ListsOf(rows) :
     \A i, j \in 1..Len(l) : i < j => IsoLeq(l[j].dateTimeOriginal, l[i].dateTimeOriginal)}

\* results.slice(offset) and results.slice(0, limit)
Slice(list, from) == SubSeq(list, from + 1, Len(list))

SliceTo(list, to) == SubSeq(list, 1, IF to < Len(list) THEN to ELSE Len(list))

\* searchImages after the query: transform, location filter, pagination
Paginate(list, q) ==
  LET l1 == IF q.offset # Undefined /\ q.offset # 0 THEN Slice(list, q.offset) ELSE list
  IN IF q.limit # Undefined /\ q.limit # 0 THEN SliceTo(l1, q.limit) ELSE l1

Located(list, q) ==
  IF q.near.given THEN SelectSeq(list, LAMBDA rec : NearLocationFilter(rec, q.near)) ELSE list

\* getImages returning the empty list for an empty table
MutGetImagesResult(list) == [null |-> FALSE, list |-> list]

\* getImages: results.length > 0 ? results.map(this.transformRecord) : null
GetImagesResult(list) ==
  IF Len(list) > 0 THEN [null |-> FALSE, list |-> list] ELSE [null |-> TRUE, list |-> <<>>]

\* ------------------------------------------------------------------ ImageRepository: reading
NoNear == [given |-> FALSE, latitude |-> 0, longitude |-> 0, radiusKm |-> Undefined]

\* nearLocation at the query point, with the default radius or with 12 km
NearQueries ==
  {NoNear} \cup {[given |-> TRUE, latitude |-> 0, longitude |-> 0, radiusKm |-> r] :
                   r \in {Undefined, 12}}

\* the queries a client makes: filters without pagination, and pagination
\* with or without a location
FilterQueries ==
  [path : {"", Dirs[1]}, dateFrom : {0, 2}, dateTo : {0, 1},
   hasGPS : {"undefined", "true", "false"}, near : NearQueries,
   offset : {Undefined}, limit : {Undefined}]

PageQueries ==
  [path : {""}, dateFrom : {0}, dateTo : {0}, hasGPS : {"undefined"}, near : NearQueries,
   offset : 0..MaxPage, limit : 0..MaxPage]

Queries == FilterQueries \cup PageQueries

\* everything the repository's reads and saves leave alone
queryFrame ==
  <<txOpen, snap, dbQueue, flaky, call, ncalls, firstErr, lastSaved, input, imp, storeVars,
    appVars>>

\* the client reads the table once after each write: a read that follows a
\* read sees the same rows again
Written == out.op \notin {"getImages", "searchImages"}

\* saveImage(imageData) of an initialized repository, awaited by its caller
SaveRow(imageData) ==
  /\ seq < MaxSaves
  /\ tbl' = InsertOrReplaceAt(tbl, seq + 1, DbRecordOf(imageData), now)
  /\ seq' = seq + 1
  /\ pre' = tbl
  /\ out' = [op |-> "saveImage", path |-> imageData.path]
  /\ UNCHANGED <<now, queryFrame>>

\* deleteAll
DeleteAllRows ==
  /\ tbl # {}
  /\ tbl' = {}
  /\ pre' = tbl
  /\ out' = [op |-> "deleteAll", path |-> NoPath]
  /\ UNCHANGED <<seq, now, queryFrame>>

\* getImages: SELECT * FROM images, in the order the engine picks
GetImages ==
  /\ Written
  /\ \E l \in ListsOf(tbl) :
       LET res == GetImagesResult([i \in 1..Len(l) |-> TransformRow(l[i])])
       IN out' = [op |-> "getImages", null |-> res.null, list |-> res.list]
  /\ UNCHANGED <<tbl, seq, pre, now, queryFrame>>

\* searchImages(query)
SearchImages(q) ==
  /\ Written
  /\ \E l \in OrderByDateDesc({r \in tbl : EvalWhere(JoinAnd(Conditions(q)), r, q)}) :
       LET results == [i \in 1..Len(l) |-> TransformRow(l[i])]
           full == Located(results, q)
       IN out' = [op |-> "searchImages", q |-> q, full |-> full, list |-> Paginate(full, q)]
  /\ UNCHANGED <<tbl, seq, pre, now, queryFrame>>

\* a second passes on the engine's clock
Tick ==
  /\ now < MaxClock
  /\ now' = now + 1
  /\ UNCHANGED <<tbl, seq, pre, out, queryFrame>>

InitQuery == PipelineIdle /\ StoreIdle /\ QueryIdle

NextQuery ==
  \/ \E imageData \in ImageData : SaveRow(imageData)
  \/ DeleteAllRows
  \/ GetImages
  \/ \E q \in Queries : SearchImages(q)

SpecQuery == InitQuery /\ [][NextQuery]_vars

NextStamps ==
  \/ \E imageData \in ImageData : SaveRow(imageData)
  \/ Tick
  \/ DeleteAllRows

SpecStamps == InitQuery /\ [][NextStamps]_vars

\* ------------------------------------------------------------------ claims on reading
\* C15: getImages returns null exactly when the table holds no row (nothing
\* imported yet, or after deleteAll); otherwise it returns a list with one
\* record for each row, and never the empty list.
C15_NullIffEmpty ==
  out.op = "getImages" =>
    /\ out.null <=> tbl = {}
    /\ ~out.null =>
         /\ out.list # <<>>
         /\ Len(out.list) = Cardinality(tbl)
         /\ {out.list[i].id : i \in 1..Len(out.list)} = {r.id : r \in tbl}

C15_Witness == out.op = "getImages" /\ out.null /\ pre # {} /\ tbl = {}

\* ------------------------------------------------------------------ claims on searching
Unpaged(q) == q.offset = Undefined /\ q.limit = Undefined

IdsOf(list) == {list[i].id : i \in 1..Len(list)}

\* a row has GPS when both of its GPS columns hold a value
HasGps(r) == r.gpsLatitude # SqlNull /\ r.gpsLongitude # SqlNull

\* a row satisfies every filter supplied among path, dateFrom, dateTo, hasGPS
SatisfiesAll(r, q) ==
  /\ q.path # "" => PathLike(r.path, q.path)
  /\ q.dateFrom # 0 => r.dateTimeOriginal[2] >= q.dateFrom
  /\ q.dateTo # 0 => r.dateTimeOriginal[2] <= q.dateTo
  /\ q.hasGPS = "true" => HasGps(r)
  /\ q.hasGPS = "false" => ~HasGps(r)

\* the elements at positions offset .. offset + limit - 1 of a list, counted from 0
PageOf(list, offset, limit) ==
  [i \in 1..Max(0, Min(limit, Len(list) - offset)) |-> list[offset + i]]

\* C16: for every non-negative offset and limit, searchImages returns exactly
\* the elements at positions offset .. offset + limit - 1 of the list of all
\* rows that pass the SQL filters and the location filter, sorted by
\* dateTimeOriginal descending (fewer when the list ends), and never more than
\* limit elements.
C16_ExactPage ==
  (out.op = "searchImages" /\ out.q.offset # Undefined /\ out.q.limit # Undefined) =>
    /\ out.list = PageOf(out.full, out.q.offset, out.q.limit)
    /\ Len(out.list) <= out.q.limit

\* C17: the filters of searchImages compose conjunctively: without
\* pagination and location, the rows returned are exactly the stored rows
\* that satisfy every supplied filter (path substring, inclusive date range,
\* GPS presence equal to hasGPS).
C17_Conjunctive ==
  (out.op = "searchImages" /\ ~out.q.near.given /\ Unpaged(out.q)) =>
    IdsOf(out.list) = {r.id : r \in {x \in tbl : SatisfiesAll(x, out.q)}}

\* the distance of a row with GPS from the query point is within the radius
\* R, 10 km when no radius is given
WithinRadius(r, near) ==
  Haversine(GpsArrayToDecimal(Parse(r.gpsLatitude)), GpsArrayToDecimal(Parse(r.gpsLongitude)),
            near.latitude, near.longitude)
    <= (IF near.radiusKm = Undefined THEN 10 ELSE near.radiusKm) * 1000000

\* C18: with nearLocation and no pagination, a row is returned if and only if
\* both of its GPS columns are non-null, it passes the other filters, and its
\* distance from the query point is at most the radius (10 km by default).
C18_WithinRadius ==
  (out.op = "searchImages" /\ out.q.near.given /\ Unpaged(out.q)) =>
    IdsOf(out.list) =
      {r.id : r \in {x \in tbl : HasGps(x) /\ SatisfiesAll(x, out.q) /\ WithinRadius(x, out.q.near)}}

C18_Witness ==
  /\ out.op = "searchImages" /\ out.q.near.given /\ Unpaged(out.q)
  /\ out.q.near.radiusKm = Undefined
  /\ Len(out.list) = 1 /\ out.list[1].gpsLatitude = GpsNear
  /\ \E r \in tbl : r.gpsLatitude = Stringify(GpsFar)

\* ------------------------------------------------------------------ claims on the timestamps
\* the row of the path just saved, and the row that path had before the save
SavedRows == {r \in tbl : out.op = "saveImage" /\ r.path = out.path}

ReplacedRows == {o \in pre : out.op = "saveImage" /\ o.path = out.path}

\* C19: createdAt is set once, at the first insert of a path: saving a path
\* that is already stored leaves the row's createdAt unchanged.
C19_CreatedOnce == \A r \in SavedRows, o \in ReplacedRows : r.createdAt = o.createdAt

\* C20: saving a path that is already stored leaves the row with an updatedAt
\* strictly greater than the one it had, however close in time the two saves.
C20_UpdatedLater == \A r \in SavedRows, o \in ReplacedRows : r.updatedAt > o.updatedAt

\* ------------------------------------------------------------------ claims on what an import writes
\* C21: an import writes a row only for a path whose metadata extraction
\* succeeded: no row is stored for a path whose result entry carries an
\* extraction error, on the sequential and on the parallel path alike.
C21_OnlyExtracted == \A r \in tbl : r.path \notin input.corrupt

\* ------------------------------------------------------------------ import-utils: the enumerator
\* deepest maxDepth an import is called with (apart from the default)
MaxDepth == 1
\* most files in a directory tree that is enumerated
MaxEntries == 2

\* maxDepth = Infinity, the default: larger than the depth of any directory
Infinity == 99

IMAGE_EXTENSIONS ==
  {"jpg", "jpeg", "jpe", "jfif", "png", "gif", "webp", "bmp", "tiff", "tif", "heic", "heif",
   "avif", "svg", "ico"}

\* a file name is the list of its parts between dots, as filename.split('.')
\* gives them: x.jpg, x.JPG, x.txt, x.tar.PNG, "x." (ending in a dot), and
\* the names without a dot x and jpg
FileNames ==
  {<<"x", "jpg">>, <<"x", "JPG">>, <<"x", "txt">>, <<"x", "tar", "PNG">>, <<"x", "">>,
   <<"x">>, <<"jpg">>}

ToLowerCase(s) == CASE s = "JPG" -> "jpg" [] s = "PNG" -> "png" [] OTHER -> s

\* isImageFile: filename.split('.').pop()?.toLowerCase(), then the set
IsImageFile(filename) ==
  LET ext == ToLowerCase(filename[Len(filename)])
  IN IF ext # "" THEN ext \in IMAGE_EXTENSIONS ELSE FALSE

\* a directory is the list of directory names leading to it from the root;
\* the trees enumerated hold a chain of nested directories d, d/d, ...
DirPaths == {[i \in 1..k |-> "d"] : k \in 0..(MaxDepth + 1)}

\* a tree is the set of its files, each in a directory and with a name
FileEntries == [dir : DirPaths, name : FileNames]

Trees == {t \in SUBSET FileEntries : Cardinality(t) <= MaxEntries}

IsPrefix(d, e) == Len(d) <= Len(e) /\ SubSeq(e, 1, Len(d)) = d

\* the directories directly inside directory d of a tree
SubDirs(tree, d) ==
  {SubSeq(f.dir, 1, Len(d) + 1) : f \in {x \in tree : IsPrefix(d, x.dir) /\ Len(x.dir) > Len(d)}}

\* enumerateFiles(dirHandle, currentPath, currentDepth, maxDepth): the
\* entries it yields, for the directory at currentPath of the tree
RECURSIVE EnumerateFiles(_, _, _, _)
EnumerateFiles(tree, currentPath, currentDepth, maxDepth) ==
  IF currentDepth > maxDepth THEN {}
  ELSE {f \in tree : f.dir = currentPath /\ IsImageFile(f.name)}
         \cup UNION {EnumerateFiles(tree, sub, currentDepth + 1, maxDepth) :
                       sub \in SubDirs(tree, currentPath)}

\* what the enumerator and importFiles leave alone
enumFrame ==
  <<tbl, seq, txOpen, snap, dbQueue, flaky, call, ncalls, pre, firstErr, lastSaved, imp,
    storeVars, now, appVars>>

\* for await (... of enumerateFiles(dirHandle, '', 0, maxDepth)), run to its end
Enumerate ==
  /\ out' = [op |-> "enumerateFiles",
             files |-> EnumerateFiles(input.tree, <<>>, 0, input.maxDepth)]
  /\ UNCHANGED <<input, enumFrame>>

\* importFiles(files, ...) for the files of the tree picked one by one: the
\* files that pass the isImageFile test
PickFiles ==
  /\ out' = [op |-> "importFiles", files |-> {f \in input.tree : IsImageFile(f.name)}]
  /\ UNCHANGED <<input, enumFrame>>

InitEnum ==
  /\ InitDb
  /\ flaky = FALSE
  /\ ncalls = 0
  /\ pre = {}
  /\ firstErr = NoErr
  /\ lastSaved = [p \in RepoPaths |-> NULL]
  /\ imp = NoImport
  /\ StoreIdle
  /\ QueryIdle
  /\ input \in [tree : Trees, maxDepth : 0..MaxDepth \cup {Infinity}]

NextEnum == Enumerate \/ PickFiles

SpecEnum == InitEnum /\ [][NextEnum]_vars

\* ------------------------------------------------------------------ claims on the enumerator
\* the depth of a directory, counted so that the directories directly inside
\* the root are at depth 0
DepthOf(d) == Len(d) - 1

\* a name ends with a dot followed by an allow-listed extension, compared
\* without regard to case
HasImageExtension(name) == Len(name) >= 2 /\ ToLowerCase(name[Len(name)]) \in IMAGE_EXTENSIONS

\* C22: with the directories directly inside the root at depth 0, the
\* enumerator descends into a directory if and only if its depth is at most
\* maxDepth, and yields exactly the image files reached that way; with
\* maxDepth = 0 the image files directly inside the root's immediate
\* subdirectories are yielded and files one level deeper are not.
C22_DepthBound ==
  out.op = "enumerateFiles" =>
    out.files = {f \in input.tree : IsImageFile(f.name) /\ DepthOf(f.dir) <= input.maxDepth}

\* C23: a file is yielded by the enumerator, and accepted by importFiles, if
\* and only if its name ends with a dot followed by an allow-listed extension
\* (case-insensitively); a name without a dot is skipped.
C23_AllowList ==
  /\ (out.op = "enumerateFiles" /\ input.maxDepth = Infinity) =>
       out.files = {f \in input.tree : HasImageExtension(f.name)}
  /\ out.op = "importFiles" => out.files = {f \in input.tree : HasImageExtension(f.name)}

\* ------------------------------------------------------------------ importImages: the choice of a strategy
\* most qualifying files in a directory handed to importImages
MaxQualifying == 52

WORKER_THRESHOLD == 50

\* importImages not called yet
CountIdle == [ipc |-> "Idle", fileCount |-> 0, consumed |-> 0, ran |-> {}]

\* fileCount >= WORKER_THRESHOLD, the test that ends the counting loop and
\* the test that picks the strategy
MutThresholdReached(fileCount) == fileCount > WORKER_THRESHOLD

ThresholdReached(fileCount) == fileCount >= WORKER_THRESHOLD

\* the code after the counting loop: importImagesWithWorkers is called, or
\* the sequential body of importImages runs
SelectStrategy(s) ==
  LET strategy == IF ThresholdReached(s.fileCount) THEN "Parallel" ELSE "Sequential"
  IN [s EXCEPT !.ipc = strategy, !.ran = @ \cup {strategy}]

\* what the choice of a strategy leaves alone
countFrame ==
  <<tbl, seq, txOpen, snap, dbQueue, flaky, call, ncalls, pre, firstErr, lastSaved, input,
    storeVars, queryVars>>

\* importImages(dirHandle, options) is called: the counting generator is made
CallImportImages ==
  /\ imp.ipc = "Idle"
  /\ imp' = [imp EXCEPT !.ipc = "Counting"]
  /\ UNCHANGED countFrame

\* one turn of the counting loop: the generator yields a file, which is
\* counted, and the loop goes on or breaks; or the generator is done
CountStep ==
  /\ imp.ipc = "Counting"
  /\ IF imp.consumed < input.qualifying
       THEN LET s == [imp EXCEPT !.fileCount = @ + 1, !.consumed = @ + 1]
            IN imp' = IF ThresholdReached(s.fileCount) THEN SelectStrategy(s) ELSE s
       ELSE imp' = SelectStrategy(imp)
  /\ UNCHANGED countFrame

\* the strategy that was started returns its results or throws
StrategySettles ==
  /\ imp.ipc \in {"Parallel", "Sequential"}
  /\ \E end \in {"Completed", "Failed"} : imp' = [imp EXCEPT !.ipc = end]
  /\ UNCHANGED countFrame

\* the tables, the clients and the other components at rest
RepoAtRest ==
  /\ InitDb
  /\ flaky = FALSE
  /\ ncalls = 0
  /\ pre = {}
  /\ firstErr = NoErr
  /\ lastSaved = [p \in RepoPaths |-> NULL]
  /\ StoreIdle
  /\ QueryIdle

InitCount ==
  /\ RepoAtRest
  /\ input \in [qualifying : 0..MaxQualifying]
  /\ imp = CountIdle

NextCount == CallImportImages \/ CountStep \/ StrategySettles

SpecCount == InitCount /\ [][NextCount]_vars

\* ------------------------------------------------------------------ claims on the choice of a strategy
\* the order of the phases of one import
PhaseOrder ==
  {<<"Idle", "Counting">>, <<"Counting", "Counting">>, <<"Counting", "Parallel">>,
   <<"Counting", "Sequential">>, <<"Parallel", "Completed">>, <<"Parallel", "Failed">>,
   <<"Sequential", "Completed">>, <<"Sequential", "Failed">>}

\* the probe has consumed at most 50 entries, at most one strategy has run,
\* and the one that runs is the parallel one iff there are 50 files or more
StrategyChosen ==
  /\ imp.consumed <= 50
  /\ Cardinality(imp.ran) <= 1
  /\ imp.ipc \in {"Idle", "Counting"} => imp.ran = {}
  /\ imp.ipc \in {"Parallel", "Sequential", "Completed", "Failed"} =>
       imp.ran = {IF input.qualifying >= 50 THEN "Parallel" ELSE "Sequential"}
  /\ imp.ipc \in {"Parallel", "Sequential"} => imp.ran = {imp.ipc}

CompletedBatches ==
  Len(imp.dispatched)
    - Cardinality({w \in DOMAIN imp.wst : imp.wst[w] \in {"busy", "saving", "stuck", "failed"}})

MaxImports == 2

\* new Date(): the clock in whole seconds and some number of milliseconds
\* within the second
Dates == [s : {now}, ms : {0, 500}]

\* `import_${new Date().toISOString().replace(/[:.]/g, '-').slice(0, -5)}`:
\* slice(0, -5) drops the milliseconds and the Z of the ISO string
ImportDirName(d) == <<"import", d.s>>

\* the source directories (and, for importFiles, the picked files)
SourceFile(dir, name) == [dir |-> dir, name |-> name]

SourceTrees ==
  {{SourceFile(<<>>, <<"x", "jpg">>), SourceFile(<<"d">>, <<"x", "jpg">>)},
   {SourceFile(<<>>, <<"x", "jpg">>), SourceFile(<<>>, <<"x", "txt">>)}}

\* one invocation of importImages(dirHandle, options, targetDirHandle) or of
\* importFiles(files, targetDirHandle, repository), not started
NoCopy ==
  [kind |-> "none", st |-> "idle", tree |-> {}, importDirName |-> <<>>, fresh |-> FALSE,
   copied |-> {}, files |-> {}, results |-> {}, saved |-> {}]

\* the managed root empty, no import started
ManagedEmpty == [dirs |-> {}, files |-> {}, imports |-> [k \in 1..MaxImports |-> NoCopy]]

\* a path that leaves the prefix out
MutFinalPath(pathPrefix, path) == path

\* pathPrefix ? `${pathPrefix}/${path}` : path, a path being the sequence
\* of its segments and '' the empty sequence
FinalPath(pathPrefix, path) == IF pathPrefix # <<>> THEN pathPrefix \o path ELSE path

\* getFileHandle(name, { create: true }), createWritable, write, close: the
\* file f of import k is written into directory root, over a file of that
\* name if there is one
WriteFile(files, root, f, k) ==
  {g \in files : ~(g.root = root /\ g.dir = f.dir /\ g.name = f.name)}
    \cup {[root |-> root, dir |-> f.dir, name |-> f.name, from |-> k]}

\* the directory tree behind the handle of the directory root
TreeOf(files, root) == {SourceFile(g.dir, g.name) : g \in {x \in files : x.root = root}}

\* the entry an iteration takes next: a directory handle and a list yield
\* their entries in an order of their own
NextEntry(todo) == CHOOSE f \in todo : TRUE

\* what the managed copy leaves alone
copyFrame ==
  <<txOpen, snap, dbQueue, flaky, call, ncalls, pre, firstErr, lastSaved, input, imp,
    storeVars, out, provider, view, importWorker>>

\* the clock reaches the next second; it is read only when an import begins
NextSecond ==
  /\ \E k \in 1..MaxImports : managed.imports[k].st = "idle"
  /\ now < MaxClock
  /\ now' = now + 1
  /\ UNCHANGED <<tbl, seq, managed, copyFrame>>

\* import k is called: the directory import_<timestamp> is opened in the
\* managed root, created if it is not there
OpenImportDir(k) ==
  /\ managed.imports[k].st = "idle"
  /\ k > 1 => managed.imports[k - 1].st # "idle"
  /\ \E kind \in {"sequential", "parallel", "files"}, tree \in SourceTrees, d \in Dates :
       LET importDirName == ImportDirName(d)
       IN /\ kind = "files" => \A f \in tree : f.dir = <<>>
          /\ managed' = [managed EXCEPT
               !.dirs = @ \cup {importDirName},
               !.imports[k] = [NoCopy EXCEPT !.kind = kind, !.tree = tree,
                                            !.importDirName = importDirName,
                                            !.fresh = importDirName \notin managed.dirs,
                                            !.st = IF kind = "files" THEN "files" ELSE "copying"]]
  /\ UNCHANGED <<tbl, seq, now, copyFrame>>

\* copyDirectory: one more entry of the source tree is copied
CopyDirectory(k) ==
  /\ managed.imports[k].st = "copying"
  /\ LET m == managed.imports[k]
         f == NextEntry(m.tree \ m.copied)
     IN   managed' = [managed EXCEPT
            !.files = WriteFile(@, m.importDirName, f, k),
            !.imports[k].copied = @ \cup {f},
            !.imports[k].st = IF m.copied \cup {f} = m.tree THEN "enumerate" ELSE @]
  /\ UNCHANGED <<tbl, seq, now, copyFrame>>

\* the files of the copy are enumerated (by the enumeration worker, or by
\* the first pass of the sequential body), each path under the prefix
EnumerateCopy(k) ==
  /\ managed.imports[k].st = "enumerate"
  /\ LET m == managed.imports[k]
         found == EnumerateFiles(TreeOf(managed.files, m.importDirName), <<>>, 0, Infinity)
         files == {FinalPath(<<m.importDirName>>, f.dir \o <<f.name>>) : f \in found}
     IN managed' = [managed EXCEPT !.imports[k].files = files,
                                   !.imports[k].st = IF files = {} THEN "done" ELSE "extract"]
  /\ UNCHANGED <<tbl, seq, now, copyFrame>>

\* the file behind a path of the copy: the path within the source tree
ContentOf(p) == Tail(p)

\* the rows the repository writes for a set of result entries
RECURSIVE SaveAll(_, _)
SaveAll(db, entries) ==
  IF entries = {} THEN db
  ELSE LET e == CHOOSE x \in entries : TRUE
       IN SaveAll(InsertOrReplace(db, DbRecord(e)), entries \ {e})

\* the sequential loop: one file is extracted, saved and pushed, or the
\* catch block pushes its error entry
ExtractOne(k) ==
  /\ managed.imports[k].st = "extract"
  /\ managed.imports[k].kind = "sequential"
  /\ LET m == managed.imports[k]
         p == NextEntry(m.files \ {r.path : r \in m.results})
         ok == ExtractImageMetadata(ContentOf(p)) # NULL
     IN   LET entry == IF ok THEN [path |-> p, metadata |-> <<"meta", p>>, error |-> NULL]
                       ELSE SeqCatch(p, ExtractionError)
              db == IF ok THEN InsertOrReplace(Db, DbRecord(entry)) ELSE Db
              results == m.results \cup {entry}
          IN /\ managed' = [managed EXCEPT
                  !.imports[k].results = results,
                  !.imports[k].saved = IF ok THEN @ \cup {p} ELSE @,
                  !.imports[k].st = IF {r.path : r \in results} = m.files THEN "done" ELSE @]
             /\ tbl' = db.tbl
             /\ seq' = db.seq
  /\ UNCHANGED <<now, copyFrame>>

\* the pool: the batch of every enumerated file is processed by a worker and
\* its results are merged and saved by the handler
ProcessAll(k) ==
  /\ managed.imports[k].st = "extract"
  /\ managed.imports[k].kind = "parallel"
  /\ LET m == managed.imports[k]
     IN   LET results == {IF ExtractImageMetadata(ContentOf(p)) = NULL
                            THEN [path |-> p, metadata |-> NULL, error |-> ExtractionError]
                            ELSE [path |-> p, metadata |-> <<"meta", p>>, error |-> NULL] :
                          p \in m.files}
              db == SaveAll(Db, results)
          IN /\ managed' = [managed EXCEPT !.imports[k].results = results,
                                           !.imports[k].saved = m.files,
                                           !.imports[k].st = "done"]
             /\ tbl' = db.tbl
             /\ seq' = db.seq
  /\ UNCHANGED <<now, copyFrame>>

\* importFiles, one turn of its loop: a file that is not an image is
\* skipped; an image is written into the import directory, extracted and saved
ImportFile(k) ==
  /\ managed.imports[k].st = "files"
  /\ LET m == managed.imports[k]
         f == NextEntry(m.tree \ m.copied)
         ok == ExtractImageMetadata(<<f.name>>) # NULL
     IN   LET path == <<m.importDirName, f.name>>
              entry == IF ok THEN [path |-> path, metadata |-> <<"meta", path>>, error |-> NULL]
                       ELSE [path |-> <<f.name>>, metadata |-> NULL, error |-> ExtractionError]
              image == IsImageFile(f.name)
              db == IF image /\ ok THEN InsertOrReplace(Db, DbRecord(entry)) ELSE Db
          IN /\ managed' = [managed EXCEPT
                  !.files = IF image THEN WriteFile(@, m.importDirName, f, k) ELSE @,
                  !.imports[k].copied = @ \cup {f},
                  !.imports[k].results = IF image THEN @ \cup {entry} ELSE @,
                  !.imports[k].saved = IF image /\ ok THEN @ \cup {path} ELSE @,
                  !.imports[k].st = IF m.copied \cup {f} = m.tree THEN "done" ELSE @]
             /\ tbl' = db.tbl
             /\ seq' = db.seq
  /\ UNCHANGED <<now, copyFrame>>

InitCopy ==
  /\ InitDb
  /\ flaky = FALSE
  /\ ncalls = 0
  /\ pre = {}
  /\ firstErr = NoErr
  /\ lastSaved = [p \in RepoPaths |-> NULL]
  /\ StoreIdle
  /\ now = 0
  /\ out = NoCall
  /\ provider = NoProvider
  /\ view = NoView
  /\ importWorker = NoWorker
  /\ input \in {[NoInput EXCEPT !.corrupt = c] : c \in {{}, {<<<<"x", "jpg">>>>}}}
  /\ imp = NoImport
  /\ managed = ManagedEmpty

NextCopy ==
  \/ NextSecond
  \/ \E k \in 1..MaxImports : OpenImportDir(k)
  \/ \E k \in 1..MaxImports : CopyDirectory(k)
  \/ \E k \in 1..MaxImports : EnumerateCopy(k)
  \/ \E k \in 1..MaxImports : ExtractOne(k)
  \/ \E k \in 1..MaxImports : ProcessAll(k)
  \/ \E k \in 1..MaxImports : ImportFile(k)

SpecCopy == InitCopy /\ [][NextCopy]_vars

\* ------------------------------------------------------------------ claims on the managed copy
\* the imports that have opened their directory
Started == {k \in 1..MaxImports : managed.imports[k].st # "idle"}

\* C26: the managed copy writes only into a subdirectory that did not exist
\* before the import began: two imports into the same managed root never get
\* the same import_<timestamp> subdirectory, however close in time they are,
\* so that no file of an earlier import is written over.
C26_FreshDirectory ==
  /\ \A k \in Started : managed.imports[k].fresh
  /\ \A k, j \in Started :
       k # j => managed.imports[k].importDirName # managed.imports[j].importDirName
  /\ \A k \in Started : managed.imports[k].kind # "files" =>
       \A f \in managed.imports[k].copied :
         [root |-> managed.imports[k].importDirName, dir |-> f.dir, name |-> f.name,
          from |-> k] \in managed.files

\* the path begins with the name of the directory followed by '/'
BeginsWith(path, importDirName) == Len(path) >= 2 /\ path[1] = importDirName

\* C30: when importImages is given a managed target root, the whole source
\* tree has been copied into the import_<timestamp> subdirectory before the
\* extraction of any file starts, and the path of every result entry and of
\* every row the import persisted begins with the name of that subdirectory
\* followed by '/', on the sequential and on the parallel path.
C30_CopiedAndPrefixed ==
  \A k \in Started :
    LET m == managed.imports[k]
    IN m.kind \in {"sequential", "parallel"} =>
         /\ m.st \in {"extract", "done"} => m.copied = m.tree
         /\ m.results # {} => m.copied = m.tree
         /\ \A r \in m.results : BeginsWith(r.path, m.importDirName)
         /\ \A p \in m.saved :
              BeginsWith(p, m.importDirName) /\ \E row \in tbl : row.path = p

\* a sequential and a parallel import with a target have both finished with
\* results and rows
C30_Witness ==
  \E k, j \in Started :
    /\ managed.imports[k].kind = "sequential"
    /\ managed.imports[j].kind = "parallel"
    /\ managed.imports[k].st = "done" /\ managed.imports[j].st = "done"
    /\ managed.imports[k].saved # {} /\ managed.imports[j].saved # {}
    /\ \E r \in managed.imports[k].results : r.error # NULL

\* ------------------------------------------------------------------ ImageRepositoryProvider
\* number of times the user picks a directory
MaxSelections == 3

\* the provider mounted: its state as useState initializes it, the value of
\* `repository` the current effect's cleanup closed over, the directories
\* picked so far, the initRepository call of each, the storage contexts
\* alive, the repositories close() was called on, and whether the database
\* file was written while a storage context was alive
Mounted ==
  [mounted |-> TRUE, directoryHandle |-> 0, repository |-> 0, captured |-> 0,
   selections |-> 0, inits |-> <<>>, live |-> {}, closing |-> {}, wroteWhileOpen |-> FALSE]

\* what the provider leaves alone
providerFrame ==
  <<tbl, seq, txOpen, snap, dbQueue, flaky, call, ncalls, pre, firstErr, lastSaved, input, imp,
    storeVars, now, out, managed, view, importWorker>>

\* the cleanup the effect returned: if (repository) repository.close(),
\* with the repository of the render the effect was made in
Cleanup(p) == IF p.captured # 0 THEN [p EXCEPT !.closing = @ \cup {p.captured}] ELSE p

\* the effect of a render whose directoryHandle is new: initRepository() is
\* called and runs to its first await, and the cleanup closes over the
\* repository of this render
Effect(p) ==
  [p EXCEPT !.captured = p.repository,
            !.inits = IF p.directoryHandle = 0 THEN @
                      ELSE Append(@, [pc |-> "getFileHandle", found |-> FALSE])]

\* the provider is mounted: the first render and its effect, with no
\* directory handle yet
Mount ==
  /\ ~provider.mounted
  /\ provider' = Effect(Mounted)
  /\ UNCHANGED providerFrame

\* setDirectoryHandle(handle) with a new handle: the provider renders again,
\* the cleanup of the previous effect runs, then the new effect
SetDirectoryHandle ==
  /\ provider.mounted
  /\ provider.selections < MaxSelections
  /\ LET p == [provider EXCEPT !.selections = @ + 1, !.directoryHandle = provider.selections + 1]
     IN provider' = Effect(Cleanup(p))
  /\ UNCHANGED providerFrame

\* clearOPFS() or writeToOPFS(): the database file is removed or written
WriteOPFS(p) == [p EXCEPT !.wroteWhileOpen = @ \/ p.live # {}]

\* initRepository of the k-th directory goes on from the await it is at
\* (the read of orma.sqlite3, clearOPFS, writeToOPFS, repo.init) to the next
InitRepository(k) ==
  /\ provider.mounted
  /\ k \in DOMAIN provider.inits
  /\ LET c == provider.inits[k]
     IN CASE c.pc = "getFileHandle" ->
               \E found \in BOOLEAN :
                 provider' = [provider EXCEPT !.inits[k] = [pc |-> "clearOPFS", found |-> found]]
          [] c.pc = "clearOPFS" ->
               IF c.found
                 THEN provider' = [WriteOPFS(provider) EXCEPT !.inits[k].pc = "writeToOPFS"]
                 ELSE provider' = [WriteOPFS(provider) EXCEPT !.inits[k].pc = "init",
                                                              !.live = @ \cup {k}]
          [] c.pc = "writeToOPFS" ->
               provider' = [WriteOPFS(provider) EXCEPT !.inits[k].pc = "init",
                                                       !.live = @ \cup {k}]
          [] c.pc = "init" ->
               \E ok \in BOOLEAN :
                 provider' = IF ok THEN [provider EXCEPT !.inits[k].pc = "done", !.repository = k]
                             ELSE [provider EXCEPT !.inits[k].pc = "failed"]
          [] OTHER -> FALSE
  /\ UNCHANGED providerFrame

\* repository.close(): the storage context of repository k answers the
\* close request and its worker is terminated
CloseRepository(k) ==
  /\ provider.mounted
  /\ k \in provider.closing
  /\ k \in provider.live
  /\ provider' = [provider EXCEPT !.live = @ \ {k}]
  /\ UNCHANGED providerFrame

\* the application as loaded: nothing mounted, nothing imported
InitApp ==
  /\ RepoAtRest
  /\ input = NoInput
  /\ imp = NoImport

NextProvider ==
  \/ Mount
  \/ SetDirectoryHandle
  \/ \E k \in 1..MaxSelections : InitRepository(k)
  \/ \E k \in 1..MaxSelections : CloseRepository(k)

SpecProvider == InitApp /\ [][NextProvider]_vars

\* ------------------------------------------------------------------ claims on the provider
\* C27: at every moment at most one live storage-engine context is open on
\* the database file: when the provider initializes again because the
\* directory handle changed, the repository it created before has been closed
\* before the new worker is created, and nothing writes the database file
\* while a storage context is open on it.
C27_SingleContext ==
  provider.mounted =>
    /\ Cardinality(provider.live) <= 1
    /\ ~provider.wroteWhileOpen

\* ------------------------------------------------------------------ the Albums page
\* most albums the user has created
MaxAlbums == 2

\* favouritesAlbumId === null
NoAlbum == 0

\* the albums table: the ids of its rows, the id of the Favourites album
\* among them (NoAlbum when it was not created yet) and the last id given
AlbumStores ==
  {[albums |-> 1..n, favourites |-> f, last |-> n] :
     n \in 0..(MaxAlbums + 1), f \in {NoAlbum, 1}} \ {[albums |-> {}, favourites |-> 1, last |-> 0]}

\* repository.getFavouritesAlbum(): the Favourites album, created on first
\* access when it is absent
GetFavouritesAlbum(store) ==
  IF store.favourites # NoAlbum THEN store
  ELSE [store EXCEPT !.albums = @ \cup {store.last + 1}, !.favourites = store.last + 1,
                     !.last = @ + 1]

\* repository.getAlbums(): every row of albums
GetAlbums(store) == store.albums

\* repository.deleteAlbum(id): the row is removed
DeleteAlbum(store, ids) ==
  [store EXCEPT !.albums = @ \ ids,
                !.favourites = IF @ \in ids THEN NoAlbum ELSE @]

\* the page mounted with a repository: its state as useState initializes it,
\* the two loads its effects started, the albums table, and whether
\* deleteAlbum was called on the Favourites album
AlbumsMounted(store) ==
  [mounted |-> TRUE, albums |-> {}, isSelectionMode |-> FALSE, selectedAlbums |-> {},
   selectedAlbum |-> NoAlbum, favouritesAlbumId |-> NoAlbum, loadFavourites |-> "pending",
   load |-> "pending", store |-> store, deletedFavourites |-> FALSE]

\* what the page leaves alone
viewFrame ==
  <<tbl, seq, txOpen, snap, dbQueue, flaky, call, ncalls, pre, firstErr, lastSaved, input, imp,
    storeVars, now, out, managed, provider, importWorker>>

\* the page is mounted with a repository: loadFavourites() and load() are called
MountAlbums ==
  /\ ~view.mounted
  /\ \E store \in AlbumStores : view' = AlbumsMounted(store)
  /\ UNCHANGED viewFrame

\* loadFavourites: getFavouritesAlbum() settles; setFavouritesAlbumId, or
\* the catch block
LoadFavourites ==
  /\ view.mounted
  /\ view.loadFavourites = "pending"
  /\ \E ok \in BOOLEAN :
       IF ok
         THEN LET store == GetFavouritesAlbum(view.store)
              IN view' = [view EXCEPT !.store = store, !.favouritesAlbumId = store.favourites,
                                      !.loadFavourites = "done"]
         ELSE view' = [view EXCEPT !.loadFavourites = "failed"]
  /\ UNCHANGED viewFrame

\* load: getAlbums() and the cover queries settle, after the call made before
\* them; setAlbums(enhanced), or the catch block
Load ==
  /\ view.mounted
  /\ view.loadFavourites # "pending"
  /\ view.load = "pending"
  /\ \E ok \in BOOLEAN :
       view' = IF ok THEN [view EXCEPT !.albums = GetAlbums(view.store), !.load = "done"]
               ELSE [view EXCEPT !.load = "failed"]
  /\ UNCHANGED viewFrame

\* the album list is rendered
ListShown == view.mounted /\ view.selectedAlbum = NoAlbum

\* isSelectable = !!a.id && favouritesAlbumId !== a.id
IsSelectable(a) == a # NoAlbum /\ view.favouritesAlbumId # a

\* the Select button
Select ==
  /\ ListShown
  /\ ~view.isSelectionMode
  /\ view' = [view EXCEPT !.isSelectionMode = TRUE]
  /\ UNCHANGED viewFrame

\* the Cancel button
Cancel ==
  /\ ListShown
  /\ view.isSelectionMode
  /\ view' = [view EXCEPT !.isSelectionMode = FALSE, !.selectedAlbums = {}]
  /\ UNCHANGED viewFrame

\* a click on the card of album a: the selection is toggled, or the album
\* is opened
ClickAlbum(a) ==
  /\ ListShown
  /\ view.load # "pending"
  /\ a \in view.albums
  /\ IF view.isSelectionMode
       THEN IF ~IsSelectable(a) THEN view' = view
            ELSE view' = [view EXCEPT !.selectedAlbums =
                            IF a \in @ THEN @ \ {a} ELSE @ \cup {a}]
       ELSE view' = [view EXCEPT !.selectedAlbum = a]
  /\ UNCHANGED viewFrame

\* the Back button of an open album
CloseAlbum ==
  /\ view.mounted
  /\ view.selectedAlbum # NoAlbum
  /\ view' = [view EXCEPT !.selectedAlbum = NoAlbum]
  /\ UNCHANGED viewFrame

\* the Delete button, confirmed: deleteAlbum is called on every selected id
Delete ==
  /\ ListShown
  /\ view.isSelectionMode
  /\ view.selectedAlbums # {}
  /\ view' = [view EXCEPT
       !.store = DeleteAlbum(@, view.selectedAlbums),
       !.deletedFavourites = @ \/ (view.store.favourites \in view.selectedAlbums),
       !.albums = @ \ view.selectedAlbums,
       !.selectedAlbums = {},
       !.isSelectionMode = FALSE]
  /\ UNCHANGED viewFrame

NextAlbums ==
  \/ MountAlbums
  \/ LoadFavourites
  \/ Load
  \/ Select
  \/ Cancel
  \/ \E a \in 1..(MaxAlbums + 2) : ClickAlbum(a)
  \/ CloseAlbum
  \/ Delete

SpecAlbums == InitApp /\ [][NextAlbums]_vars

\* ------------------------------------------------------------------ claims on the Albums page
\* C28: in the Albums view the set of albums selected for bulk deletion never
\* contains the Favourites album, in every reachable state, those before the
\* id of the Favourites album is loaded and those after its load failed
\* included; so the bulk Delete never calls deleteAlbum on the Favourites album.
C28_FavouritesUnselectable ==
  view.mounted =>
    /\ view.store.favourites \notin view.selectedAlbums
    /\ ~view.deletedFavourites

\* ------------------------------------------------------------------ the worker pool
\* largest navigator.hardwareConcurrency of the machines with a full pool
MaxHardware == 8

\* most image files in a directory handed to a full pool
MaxPoolFiles == 3

\* the parallel import of a directory of readable files, without a
\* repository, by a pool of the size the hardware gives; cores = 0 is a
\* browser that does not report hardwareConcurrency
PoolInputs ==
  {[strategy |-> "parallel", files |-> [i \in 1..n |-> PathOf(i)], corrupt |-> {},
    hasRepo |-> FALSE, batchSize |-> 1, workerCount |-> GetOptimalWorkerCount(cores),
    cores |-> cores] : n \in 1..MaxPoolFiles, cores \in 0..MaxHardware}

InitPool ==
  /\ RepoAtRest
  /\ input \in PoolInputs
  /\ imp = [NoImport EXCEPT !.ipc = "enumerating"]

NextPool ==
  \/ EnumerationComplete
  \/ EnumerationError
  \/ \E w \in 1..MAX_WORKERS : HandleBatchComplete(w)
  \/ \E w \in 1..MAX_WORKERS : HandleWorkerError(w)

SpecPool == InitPool /\ [][NextPool]_vars

\* ------------------------------------------------------------------ claims on the worker pool
\* the batches posted to a worker whose results have not come back
InFlight ==
  {k \in 1..Len(imp.dispatched) :
     \E p \in {AllBatches[imp.dispatched[k].index + 1][j] :
                 j \in 1..Len(AllBatches[imp.dispatched[k].index + 1])} :
       p \notin ResultPaths}

\* the workers of the pool, once it is created
Pool == DOMAIN imp.wst

\* C29: the pool size is min(max(cores - 1, 1), 6) for every reported
\* hardwareConcurrency, a missing or zero value counting as 4, so it lies
\* between 1 and 6; at every moment each pool worker has at most one batch in
\* flight and there are never more batches in flight than workers in the pool.
C29_BoundedPool ==
  LET cores == IF input.cores = 0 THEN 4 ELSE input.cores
      size == IF cores - 1 < 1 THEN 1 ELSE IF cores - 1 > 6 THEN 6 ELSE cores - 1
  IN /\ input.workerCount = size
     /\ size \in 1..6
     /\ imp.wst # <<>> => Cardinality(Pool) = size
     /\ \A w \in Pool : Cardinality({k \in InFlight : imp.dispatched[k].worker = w}) <= 1
     /\ Cardinality(InFlight) <= size

\* a pool capped at six workers was created on a machine of more than seven
\* cores, and three of its workers have a batch each
C29_Witness ==
  /\ input.cores > 7
  /\ Cardinality(Pool) = 6
  /\ Cardinality(InFlight) = 3
  /\ Cardinality({imp.dispatched[k].worker : k \in InFlight}) = 3

\* ------------------------------------------------------------------ claims on overlapping repository calls
\* the callers whose saveImages call has sent its BEGIN and has not settled
InSaveImages == {c \in DOMAIN call : call[c].op = "saveImages" /\ ~Settled(call[c])}

NestedBegin == "cannot start a transaction within a transaction"

\* C31: saveImages calls never overlap at the storage engine: during a
\* parallel import no BEGIN TRANSACTION is sent while the transaction of an
\* earlier saveImages call has neither committed nor rolled back, so that at
\* most one transaction is open at a time and no call fails because a
\* transaction is already open.
C31_NoOverlap ==
  /\ Cardinality(InSaveImages) <= 1
  /\ firstErr.err # NestedBegin
  /\ \A w \in DOMAIN imp.werr : imp.werr[w] # NestedBegin

\* ------------------------------------------------------------------ clients whose calls overlap
\* number of repository calls two overlapping clients make in one behaviour
MaxOverlapCalls == 3

\* the second client: a component that writes while the first one saves a list
Other == 1

\* a client may call when no call of its own is in flight: nothing in the
\* repository holds back a call while a call of another client is in flight
MayOverlap(c) ==
  /\ ncalls < MaxOverlapCalls
  /\ Settled(call[c])

OverlapSaveImages(c, recs) ==
  /\ MayOverlap(c)
  /\ Begin(c, [call |-> [NewCall("saveImages", recs) EXCEPT !.pc = "begin"],
               post |-> <<Request(c, "BEGIN", NULL)>>])

OverlapSaveImage(c, rec) ==
  /\ MayOverlap(c)
  /\ Begin(c, SaveImage(c, NewCall("saveImage", <<rec>>), rec))

OverlapDeleteImage(c, p) ==
  /\ MayOverlap(c)
  /\ Begin(c, [call |-> [NewCall("deleteImage", <<>>) EXCEPT !.pc = "delete", !.cur = p],
               post |-> <<Request(c, "DELETE", p)>>])

OverlapDeleteAll(c) ==
  /\ MayOverlap(c)
  /\ Begin(c, [call |-> [NewCall("deleteAll", <<>>) EXCEPT !.pc = "delete"],
               post |-> <<Request(c, "DELETE_ALL", NULL)>>])

NextOverlap ==
  \/ \E recs \in Lists : OverlapSaveImages(Main, recs)
  \/ \E rec \in Records : OverlapSaveImage(Other, rec)
  \/ \E p \in RepoPaths : OverlapDeleteImage(Other, p)
  \/ OverlapDeleteAll(Other)
  \/ DbStep

\* the repository used by one client that saves lists and another that writes
\* single rows, neither waiting for the other
SpecOverlap == InitRepo /\ [][NextOverlap]_vars

\* C32: a rollback of saveImages discards only the writes of that saveImages
\* call: once the call has rejected and the other client's call has settled,
\* every path holds what the calls that resolved left there, so a saveImage,
\* deleteImage or deleteAll that the other client saw complete while the
\* transaction was open is still in effect
C32_RollbackOwnWrites ==
  (/\ call[Main].op = "saveImages" /\ call[Main].pc = "rejected"
   /\ Settled(call[Other]) /\ dbQueue = <<>>)
  => \A p \in RepoPaths :
       IF lastSaved[p] = NULL THEN RowsOf(p) = {}
       ELSE \E r \in RowsOf(p) : TransformRecord(r).metadata = lastSaved[p]

\* ------------------------------------------------------------------ statistics read while writes are in flight
\* the metadata objects the other client saves: <<"meta", DateTimeOriginal,
\* GPSLatitude, GPSLongitude, fileSize>>, without GPS, with both coordinates
\* and with a latitude alone
StatsMetadata ==
  {<<"meta", 1, NoArray, NoArray, 1>>, <<"meta", 2, GpsNear, GpsZero, 2>>,
   <<"meta", 2, GpsNear, NoArray, 1>>}

StatsRecords == [path : RepoPaths, metadata : StatsMetadata, error : {NULL}]

\* getStatistics: Promise.all over four db.query calls, each of which posts
\* its message before it returns its promise
OverlapGetStatistics(c) ==
  /\ MayOverlap(c)
  /\ Begin(c, [call |-> [NewCall("getStatistics", <<>>) EXCEPT !.pc = "statistics"],
               post |-> <<Request(c, "COUNT", NULL), Request(c, "SUM", NULL),
                          Request(c, "COUNT_GPS", NULL), Request(c, "MIN_MAX", NULL)>>])

NextStats ==
  \/ OverlapGetStatistics(Main)
  \/ \E rec \in StatsRecords : OverlapSaveImage(Other, rec)
  \/ \E p \in RepoPaths : OverlapDeleteImage(Other, p)
  \/ OverlapDeleteAll(Other)
  \/ DbStep

\* one client reads the statistics while the other saves and deletes
SpecStats == InitRepo /\ [][NextStats]_vars

\* C33: the result of getStatistics never counts more images with GPS than
\* images, and a result taken on an empty table is totalImages 0, totalSize
\* 0, imagesWithGPS 0 with an undefined date range
C33_Snapshot ==
  (call[Main].op = "getStatistics" /\ call[Main].pc = "resolved") =>
    LET stats == call[Main].ret[1]
    IN /\ stats.imagesWithGPS <= stats.totalImages
       /\ stats.totalImages = 0 =>
            /\ stats.totalSize = 0
            /\ stats.imagesWithGPS = 0
            /\ stats.dateRange = [oldest |-> UndefinedDate, newest |-> UndefinedDate]

\* what the four consecutive requests give: the counts are taken on one
\* table, and an empty table gives zeros
StatsConsistent ==
  (call[Main].op = "getStatistics" /\ call[Main].pc = "resolved") =>
    LET stats == call[Main].ret[1]
    IN /\ stats.imagesWithGPS <= stats.totalImages
       /\ stats.totalImages = 0 => (stats.totalSize = 0 /\ stats.imagesWithGPS = 0)

\* ------------------------------------------------------------------ import.worker
\* messages posted to the import worker in one behaviour
MaxMessages == 2

\* the directories the worker is handed: x.jpg and d/x.jpg, or x.jpg and x.txt
WorkerTrees == SourceTrees

\* event.data.batch === undefined
NoBatch == <<"undefined">>

\* the paths the main thread slices its batches from: what an enumeration
\* of the directory gave when the import began
EnumeratedPaths ==
  {FinalPath(input.pathPrefix, f.dir \o <<f.name>>) :
     f \in EnumerateFiles(input.tree, <<>>, 0, input.maxDepth)}

\* allFiles.slice(i, i + batchSize): a batch holds no path twice
BatchesOf(paths) ==
  {b \in UNION {[1..n -> paths] : n \in 0..MaxBatchSize} :
     \A i, j \in DOMAIN b : b[i] = b[j] => i = j}

\* the messages the main thread posts, and a message of a type the handler
\* has no branch for; dirHandle tells whether the handle is supplied
WorkerMessages ==
  [type : {"enumerate"}, dirHandle : BOOLEAN, batch : {NoBatch}]
    \cup [type : {"process-batch"}, dirHandle : {TRUE},
          batch : {NoBatch} \cup BatchesOf(EnumeratedPaths)]
    \cup [type : {"process-batch"}, dirHandle : {FALSE}, batch : {<<>>}]
    \cup [type : {"other"}, dirHandle : {TRUE}, batch : {NoBatch}]

\* an invocation of self.onmessage: where it is suspended, the fileMap keys,
\* the position in the batch and the results pushed so far
NoHandler == [pc |-> "posted", fileMap |-> {}, i |-> 0, results |-> <<>>]

\* self.postMessage(response) by the invocation for message n; the
\* invocation ends with it
PostResponse(w, n, response) ==
  [w EXCEPT !.outbox[n] = Append(@, response), !.run[n].pc = "done"]

\* the catch block of the handler
CatchError(w, n, e) == PostResponse(w, n, [type |-> "error", error |-> e])

\* a worker that leaves a path it does not find out of its results
MutFileNotFound(results, path) == results

\* process-batch, if (!file): the entry pushed for a path without a file
FileNotFound(results, path) ==
  Append(results, [path |-> path, metadata |-> NULL, error |-> "File not found"])

\* process-batch, the for loop from element i of the batch on, up to the
\* next await: paths without a file get their entry, the first path with a
\* file suspends the handler in extractImageMetadata; after the last path
\* batch-complete is posted
RECURSIVE ProcessFrom(_, _, _)
ProcessFrom(w, n, i) ==
  LET batch == w.msgs[n].batch
  IN IF i > Len(batch)
       THEN PostResponse(w, n, [type |-> "batch-complete", results |-> w.run[n].results])
     ELSE IF batch[i] \notin w.run[n].fileMap
       THEN ProcessFrom([w EXCEPT !.run[n].results = FileNotFound(@, batch[i])], n, i + 1)
     ELSE [w EXCEPT !.run[n].pc = "extract", !.run[n].i = i]

\* what the worker and the directory leave alone
workerFrame ==
  <<tbl, seq, txOpen, snap, dbQueue, flaky, call, ncalls, pre, firstErr, lastSaved, input, imp,
    storeVars, now, out, managed, provider, view>>

\* the main thread posts a message to the worker
PostToWorker(m) ==
  /\ Len(importWorker.msgs) < MaxMessages
  /\ importWorker' = [importWorker EXCEPT !.msgs = Append(@, m), !.run = Append(@, NoHandler),
                                          !.outbox = Append(@, <<>>)]
  /\ UNCHANGED workerFrame

\* self.onmessage for message n, up to its first await: a missing argument
\* throws, a message of another type falls through both branches
SelfOnMessage(n) ==
  /\ n \in DOMAIN importWorker.msgs
  /\ importWorker.run[n].pc = "posted"
  /\ \A k \in 1..(n - 1) : importWorker.run[k].pc # "posted"
  /\ LET m == importWorker.msgs[n]
     IN importWorker' =
          CASE m.type = "enumerate" ->
                 IF ~m.dirHandle
                   THEN CatchError(importWorker, n, "Directory handle is required for enumeration")
                   ELSE [importWorker EXCEPT !.run[n].pc = "enumerate"]
            [] m.type = "process-batch" ->
                 IF ~m.dirHandle \/ m.batch = NoBatch
                   THEN CatchError(importWorker, n,
                                   "Directory handle and batch are required for processing")
                   ELSE [importWorker EXCEPT !.run[n].pc = "re-enumerate"]
            [] OTHER -> [importWorker EXCEPT !.run[n].pc = "done"]
  /\ UNCHANGED workerFrame

\* the for await over enumerateFiles ends (ok) or throws: enumerate posts
\* the files, process-batch has its fileMap and enters the loop
EnumerationSettles(n, ok) ==
  /\ n \in DOMAIN importWorker.msgs
  /\ importWorker.run[n].pc \in {"enumerate", "re-enumerate"}
  /\ LET files == {FinalPath(input.pathPrefix, f.dir \o <<f.name>>) :
                     f \in EnumerateFiles(importWorker.tree, <<>>, 0, input.maxDepth)}
     IN importWorker' =
          IF ~ok THEN CatchError(importWorker, n, "NotFoundError")
          ELSE IF importWorker.run[n].pc = "enumerate"
            THEN PostResponse(importWorker, n, [type |-> "enumeration-complete", files |-> files])
            ELSE ProcessFrom([importWorker EXCEPT !.run[n].fileMap = files], n, 1)
  /\ UNCHANGED workerFrame

\* extractImageMetadata(file) returns or throws for element i of the batch:
\* the entry is pushed and the loop goes on
ExtractionSettles(n, ok) ==
  /\ n \in DOMAIN importWorker.msgs
  /\ importWorker.run[n].pc = "extract"
  /\ LET h == importWorker.run[n]
         path == importWorker.msgs[n].batch[h.i]
         entry == IF ok THEN [path |-> path, metadata |-> <<"meta", path>>, error |-> NULL]
                  ELSE [path |-> path, metadata |-> NULL, error |-> ExtractionError]
     IN importWorker' =
          ProcessFrom([importWorker EXCEPT !.run[n].results = Append(@, entry)], n, h.i + 1)
  /\ UNCHANGED workerFrame

\* a file of the directory is removed from the disk while the import runs
RemoveFile(f) ==
  /\ f \in importWorker.tree
  /\ IsImageFile(f.name)
  /\ importWorker' = [importWorker EXCEPT !.tree = @ \ {f}]
  /\ UNCHANGED workerFrame

InitWorker ==
  /\ InitDb
  /\ flaky = FALSE
  /\ ncalls = 0
  /\ pre = {}
  /\ firstErr = NoErr
  /\ lastSaved = [p \in RepoPaths |-> NULL]
  /\ imp = NoImport
  /\ StoreIdle
  /\ now = 0
  /\ out = NoCall
  /\ managed = <<>>
  /\ provider = NoProvider
  /\ view = NoView
  /\ input \in [tree : WorkerTrees, maxDepth : {0, Infinity}, pathPrefix : {<<>>, <<"import">>}]
  /\ importWorker = [NoWorker EXCEPT !.tree = input.tree]

NextWorker ==
  \/ \E m \in WorkerMessages : PostToWorker(m)
  \/ \E n \in 1..MaxMessages : SelfOnMessage(n)
  \/ \E n \in 1..MaxMessages, ok \in BOOLEAN : EnumerationSettles(n, ok)
  \/ \E n \in 1..MaxMessages, ok \in BOOLEAN : ExtractionSettles(n, ok)
  \/ \E f \in UNION WorkerTrees : RemoveFile(f)

SpecWorker == InitWorker /\ [][NextWorker]_vars

\* ------------------------------------------------------------------ claims on the import worker
\* C34: the handler posts exactly one response for each enumerate and each
\* process-batch message it has handled, and none before: enumerate is
\* answered by enumeration-complete or error, process-batch by error or by a
\* batch-complete whose results hold one entry per path of the batch, in
\* batch order, a path missing from the re-enumeration as an entry with null
\* metadata and an error
C34_OneResponse ==
  \A n \in DOMAIN importWorker.msgs :
    LET m == importWorker.msgs[n]
        h == importWorker.run[n]
        responses == importWorker.outbox[n]
    IN m.type \in {"enumerate", "process-batch"} =>
         /\ Len(responses) = IF h.pc = "done" THEN 1 ELSE 0
         /\ \A k \in DOMAIN responses :
              LET r == responses[k]
              IN /\ m.type = "enumerate" => r.type \in {"enumeration-complete", "error"}
                 /\ m.type = "process-batch" => r.type \in {"batch-complete", "error"}
                 /\ r.type = "batch-complete" =>
                      /\ Len(r.results) = Len(m.batch)
                      /\ \A i \in 1..Len(m.batch) :
                           /\ r.results[i].path = m.batch[i]
                           /\ m.batch[i] \notin h.fileMap =>
                                (r.results[i].metadata = NULL /\ r.results[i].error # NULL)

\* a batch of two paths was answered by batch-complete: the first path was
\* gone at the re-enumeration, the second was extracted
C34_Witness ==
  \E n \in DOMAIN importWorker.msgs :
    /\ importWorker.outbox[n] # <<>>
    /\ LET r == importWorker.outbox[n][1]
       IN /\ r.type = "batch-complete" /\ Len(r.results) = 2
          /\ r.results[1].error = "File not found"
          /\ r.results[2].error = NULL

====
